---------------------------- MODULE Spec2Model ----------------------------
(***************************************************************************)
(* A model of the graph constructor and classifier client of philparse:    *)
(*   src/src/graph/construct_graph.py   GraphConstructor                   *)
(*   src/src/llm/llm_client.py          TokenBucketRateLimiter, LLMClient  *)
(*   src/src/database/pgvector.py       PGVector.add_atoms                 *)
(*                                                                         *)
(* Four specifications share the variables below; each one drives a part   *)
(* of the program and leaves the other variables at their initial value:   *)
(*   SpecPrune     prune_by_ontology and get_relationships_from_graph as   *)
(*                 functions of an arbitrary bounded input graph           *)
(*   SpecPipeline  build_graph -> get_atoms_from_graph -> add_atoms ->     *)
(*                 get_relationships_from_graph over a bounded document    *)
(*   SpecLLM       one process_atom call: the retry loop of                *)
(*                 _run_completion_request and check_taxonomy              *)
(*   SpecBucket    threads calling TokenBucketRateLimiter.consume          *)
(***************************************************************************)
EXTENDS Integers, Sequences, FiniteSets, TLC

VARIABLES
    pc,            \* position of the driver of the specification in use
    graph,         \* SpecPrune: the input graph G (its components)
    pruned,        \* SpecPrune: components of prune_by_ontology(G)
    pruned2,       \* SpecPrune: components of prune_by_ontology(prune_by_ontology(G))
    atom_id_map,   \* graph_id -> db id, as handed to get_relationships_from_graph
    rels_out,      \* the list get_relationships_from_graph returned
    retries,       \* SpecLLM: LLMClient.retries
    loop_i,        \* SpecLLM: the loop index i of _run_completion_request
    attempts,      \* SpecLLM: requests sent to the provider by this call
    failures,      \* SpecLLM: the kind of each failed attempt, in order
    sleeps,        \* SpecLLM: the time.sleep calls of the retry loop, in ms
    consumed,      \* SpecLLM: rate_limiter.consume() calls of this call
    parsed_response, \* SpecLLM: what _run_completion_request returned
    llm_result,    \* SpecLLM: how process_atom ended
    current_status,        \* SpecPipeline: GraphConstructor.current_status
    total_atoms,           \* SpecPipeline: GraphConstructor.total_atoms
    processed_atoms,       \* SpecPipeline: GraphConstructor.processed_atoms
    chapter_state,         \* SpecPipeline: where each _process_chapter worker is
    units,                 \* SpecPipeline: the components each sequence has produced, and whether it raised
    annotated_components,  \* SpecPipeline: GraphConstructor.annotated_components
    next_future,           \* SpecPipeline: the future build_graph waits for
    returned,              \* SpecPipeline: the components of the graph build_graph returned
    paragraph_id_map,      \* SpecPipeline: GraphConstructor.paragraph_id_map
    atoms_for_db,          \* SpecPipeline: the list get_atoms_from_graph returned
    now,           \* SpecBucket: time.monotonic(), in ticks
    tokens,        \* SpecBucket: TokenBucketRateLimiter.tokens, in 1/Scale tokens
    last_refill,   \* SpecBucket: TokenBucketRateLimiter.last_refill
    lock,          \* SpecBucket: the thread holding TokenBucketRateLimiter.lock, or 0
    tpc,           \* SpecBucket: where each thread is in consume()
    wake,          \* SpecBucket: when the time.sleep of each thread ends
    calls,         \* SpecBucket: consume() calls made so far
    grants,        \* SpecBucket: the clock reading of each iteration that took a token, in order
    returns,       \* SpecBucket: the time of each return of consume(), in order
    ctx_doc,       \* SpecContext: the chapters of the document
    ctx_pos,       \* SpecContext: the loop variables of each sequence
    ctx_calls,     \* SpecContext: the (target, context) of each process_atom call, per sequence
    pool_doc,      \* SpecPool: the number of subsections to process of each chapter
    pool_ch,       \* SpecPool: where each _process_chapter task is
    pool_sub,      \* SpecPool: where each _process_subsection task is
    text,          \* SpecNotes: the text handed to Parser
    processed_text,  \* SpecNotes: _preprocess_note_references(text)
    processed_again, \* SpecNotes: _preprocess_note_references of that
    parser_text,     \* SpecParse: Parser.text
    parsed_atoms,    \* SpecParse: the atoms of the paragraphs of the block, in order
    dec_text,        \* SpecDecompose: the paragraph handed to decompose_paragraph
    dec_atoms,       \* SpecDecompose: the atoms decompose_paragraph returned
    cit_section,     \* SpecCitations: the keys of the bibliography section's entries, or None
    cit_found,       \* SpecCitations: what find_intext_citations returned
    cit_result,      \* SpecCitations: what link_citations_to_bibliography returned
    chap_cands,      \* SpecChapters: the chapters list find_chapters built from the header matches
    chap_kept,       \* SpecChapters: filtered_chapters, as find_chapters returns it
    ctx_run,         \* SpecSequence: per sequence, whether a process_atom call is in flight, the
                     \* components appended and the calls and returns so far, in order
    dw_text,         \* SpecDewrap: the block handed to _remove_extraneous_newlines
    dw_out,          \* SpecDewrap: what _remove_extraneous_newlines returned
    sent,            \* SpecSend: the time of each request sent to the provider, in order
    req,             \* SpecSend: per thread, the loop index i of _run_completion_request and
                     \* the end of the time.sleep of its retry loop
    api_ctors,       \* SpecApi: current_status of each GraphConstructor made, in order of creation
    api_registered,  \* SpecApi: the one in app.state.graph_constructors[document_id], or 0
    api_tasks,       \* SpecApi: the background tasks added, in order: where each is and the
                     \* constructor it runs
    api_responses    \* SpecApi: the answer to each POST /documents/{id}/graph, in order

pruneVars == <<graph, pruned, pruned2>>
dbVars == <<atom_id_map, rels_out>>
llmVars == <<retries, loop_i, attempts, failures, sleeps, consumed, parsed_response, llm_result>>
pipeVars == <<current_status, total_atoms, processed_atoms, chapter_state, units,
              annotated_components, next_future, returned, paragraph_id_map, atoms_for_db>>
bucketVars == <<now, tokens, last_refill, lock, tpc, wake, calls, grants, returns>>
ctxVars == <<ctx_doc, ctx_pos, ctx_calls>>
textVars == <<text, processed_text, processed_again>>
poolVars == <<pool_doc, pool_ch, pool_sub>>
parseVars == <<parser_text, parsed_atoms>>
decVars == <<dec_text, dec_atoms>>
citVars == <<cit_section, cit_found, cit_result>>
chapVars == <<chap_cands, chap_kept>>
seqVars == <<ctx_run>>
dwVars == <<dw_text, dw_out>>
sendVars == <<sent, req>>
apiVars == <<api_ctors, api_registered, api_tasks, api_responses>>
lateVars == <<decVars, citVars, chapVars, seqVars, dwVars, sendVars, apiVars>>
\* the variables of this group that a specification of the group leaves alone
decOthers == <<citVars, chapVars, seqVars, dwVars, sendVars, apiVars>>
citOthers == <<decVars, chapVars, seqVars, dwVars, sendVars, apiVars>>
chapOthers == <<decVars, citVars, seqVars, dwVars, sendVars, apiVars>>
seqOthers == <<decVars, citVars, chapVars, dwVars, sendVars, apiVars>>
dwOthers == <<decVars, citVars, chapVars, seqVars, sendVars, apiVars>>
sendOthers == <<decVars, citVars, chapVars, seqVars, dwVars, apiVars>>
apiOthers == <<decVars, citVars, chapVars, seqVars, dwVars, sendVars>>
restVars == <<ctxVars, poolVars, textVars, parseVars, lateVars>>
vars == <<pc, pruneVars, dbVars, llmVars, pipeVars, bucketVars, restVars>>

(***************************************************************************)
(* Bounds.                                                                 *)
(***************************************************************************)
NumComps == 3      \* components of an input graph of SpecPrune
MaxRels  == 2      \* proposed relationships of an input graph of SpecPrune
MaxRetries == 3    \* SpecLLM: retries ranges over 0..MaxRetries
MaxReplyRels == 1  \* SpecLLM: elements of the relationships array of a reply
NumThreads == 2    \* SpecBucket: threads calling consume()
MaxCalls == 7      \* SpecBucket: consume() calls made in a run
MaxTime == 3       \* SpecBucket: ticks of time.monotonic() in a run
MaxProposed == 2   \* SpecPipeline: relationships the classifier proposes in a run

(***************************************************************************)
(* The ontology store.  models/taxonomy.json and models/ontology.json are  *)
(* data files; the instance below is the one of the specification's        *)
(* scenarios (supports goes from a Claim to an Evidence) with a second     *)
(* relationship type whose rule differs (illustrates, from an Evidence to  *)
(* a Claim).                                                               *)
(***************************************************************************)
valid_classes == {"Claim", "Evidence"}

relationship_rules ==
    [t \in {"supports", "illustrates"} |->
        IF t = "supports"
        THEN [valid_sources |-> {"Claim"}, valid_targets |-> {"Evidence"}]
        ELSE [valid_sources |-> {"Evidence"}, valid_targets |-> {"Claim"}]]

valid_directions == {"outgoing", "incoming"}

(***************************************************************************)
(* Helpers on sequences.                                                   *)
(***************************************************************************)
Range(s) == {s[i] : i \in 1..Len(s)}

RECURSIVE Filter(_, _)
\* [x for x in s if x in keep], keeping order and repetitions
Filter(s, keep) ==
    IF s = <<>> THEN <<>>
    ELSE IF Head(s) \in keep THEN <<Head(s)>> \o Filter(Tail(s), keep)
         ELSE Filter(Tail(s), keep)

SeqsUpTo(S, n) == UNION {[1..k -> S] : k \in 0..n}

Min(a, b) == IF a <= b THEN a ELSE b

(***************************************************************************)
(* JSON values as the classifier client sees them.  A value is a record    *)
(* [t, v]: t is its Python type after json.loads and v what the code can   *)
(* tell about it.  "list" stands for both unhashable types (list, dict).   *)
(***************************************************************************)
Absent == [t |-> "absent", v |-> ""]
Str(x) == [t |-> "str", v |-> x]
Unhashable == [t |-> "list", v |-> ""]
Num == [t |-> "num", v |-> "7"]

\* Python's `x in S` for a set S of strings: "yes", "no", or "raise"
\* (TypeError: unhashable type)
InSet(x, S) ==
    IF x.t = "list" THEN "raise"
    ELSE IF x.t = "str" /\ x.v \in S THEN "yes"
    ELSE "no"

\* an element of a relationships array; kind # "dict" is any other JSON value
RelElem(kind, target_id, type, direction, justification) ==
    [t |-> kind, target_id |-> target_id, type |-> type,
     direction |-> direction, justification |-> justification]

NoRelationships == [t |-> "absent", items |-> <<>>]
RelList(items) == [t |-> "list", items |-> items]

\* a parsed response: t is the Python type of the value, v tells an empty
\* from a non-empty value and, for str and list, whether "classification"
\* is a substring / an element of it
Value(kind, v) ==
    [t |-> kind, v |-> v, classification |-> Absent,
     relationships |-> NoRelationships, justification |-> Absent]
Dict(classification, relationships, justification) ==
    [t |-> "dict", v |-> "", classification |-> classification,
     relationships |-> relationships, justification |-> justification]
None == Value("None", "")

\* bool(parsed_response)
Truthy(r) ==
    CASE r.t = "None" -> FALSE
      [] r.t = "dict" -> \/ r.classification # Absent
                         \/ r.relationships.t # "absent"
                         \/ r.justification # Absent
      [] r.t = "num"  -> r.v # "zero"
      [] r.t = "bool" -> r.v = "true"
      [] OTHER        -> r.v # "empty"

valid_relationships == DOMAIN relationship_rules

RECURSIVE CheckRels(_)
\* the loop of check_taxonomy over response["relationships"]:
\* "ok" when every element passes, else "false" or "raise" at the first
\* element that does not
CheckRels(items) ==
    IF items = <<>> THEN "ok"
    ELSE LET rel == Head(items)
         IN  IF rel.t # "dict" THEN "false"
             ELSE IF Absent \in {rel.target_id, rel.type, rel.direction, rel.justification}
             THEN "false"
             ELSE IF InSet(rel.type, valid_relationships) = "raise" THEN "raise"
             ELSE IF InSet(rel.type, valid_relationships) = "no" THEN "false"
             ELSE IF InSet(rel.direction, valid_directions) = "raise" THEN "raise"
             ELSE IF InSet(rel.direction, valid_directions) = "no" THEN "false"
             ELSE CheckRels(Tail(items))

\* check_taxonomy(response): "true", "false" or "raise" (a TypeError)
check_taxonomy(response) ==
    CASE response.t \in {"num", "bool"} -> "raise"
      [] response.t \in {"str", "list"} ->
            IF response.v = "has_classification" THEN "raise" ELSE "false"
      [] OTHER ->
            IF response.classification = Absent THEN "false"
            ELSE IF InSet(response.classification, valid_classes) = "raise" THEN "raise"
            ELSE IF InSet(response.classification, valid_classes) = "no" THEN "false"
            ELSE IF response.relationships.t # "list" THEN "false"
            ELSE IF CheckRels(response.relationships.items) = "ok" THEN "true"
            ELSE CheckRels(response.relationships.items)

\* the "default error structure" of process_atom
Fallback ==
    Dict(Str("Error"), RelList(<<>>), Str("LLM API call failed"))

\* process_atom, given what _run_completion_request returned
process_atom(parsed) ==
    IF ~Truthy(parsed) THEN [kind |-> "return", value |-> Fallback]
    ELSE IF check_taxonomy(parsed) = "raise" THEN [kind |-> "raise", value |-> None]
    ELSE IF check_taxonomy(parsed) = "true" THEN [kind |-> "return", value |-> parsed]
    ELSE [kind |-> "return", value |-> Fallback]

(***************************************************************************)
(* _run_completion_request.                                                *)
(***************************************************************************)
backoff_factor_ms == 100

RECURSIVE Pow2(_)
Pow2(n) == IF n = 0 THEN 1 ELSE 2 * Pow2(n - 1)

\* time.sleep(self.backoff_factor * (2 ** i))
BackoffSleep(k) == backoff_factor_ms * Pow2(k)

\* the guard of the sleep: i < self.retries - 1
SleepsAfterFailure(k, r) == k < r - 1

\* a client that backs off after every 429, also after the last attempt
AfterFailure_429AlwaysSleeps(kind, k, r, slept) ==
    IF kind = "429" \/ k < r - 1 THEN Append(slept, backoff_factor_ms * Pow2(k)) ELSE slept

\* how a failed attempt is handled: every except branch only prints
AfterFailure(kind, k, r, slept) ==
    IF SleepsAfterFailure(k, r) THEN Append(slept, BackoffSleep(k)) ELSE slept

LLMUnused ==
    /\ retries = 0
    /\ loop_i = 0
    /\ attempts = 0
    /\ failures = <<>>
    /\ sleeps = <<>>
    /\ consumed = 0
    /\ parsed_response = None
    /\ llm_result = [kind |-> "none", value |-> None]

PruneUnused ==
    /\ graph = <<>>
    /\ pruned = <<>>
    /\ pruned2 = <<>>

\* GraphConstructor.__init__
PipeUnused ==
    /\ current_status = "idle"
    /\ total_atoms = 0
    /\ processed_atoms = 0
    /\ chapter_state = <<>>
    /\ units = <<>>
    /\ annotated_components = <<>>
    /\ next_future = 0
    /\ returned = <<>>
    /\ paragraph_id_map = <<>>
    /\ atoms_for_db = <<>>

CtxUnused ==
    /\ ctx_doc = <<>>
    /\ ctx_pos = <<>>
    /\ ctx_calls = <<>>

TextUnused ==
    /\ text = <<>>
    /\ processed_text = <<>>
    /\ processed_again = <<>>

PoolUnused ==
    /\ pool_doc = <<>>
    /\ pool_ch = <<>>
    /\ pool_sub = <<>>

ParseUnused ==
    /\ parser_text = <<>>
    /\ parsed_atoms = <<>>

DecUnused ==
    /\ dec_text = <<>>
    /\ dec_atoms = <<>>

CitUnused ==
    /\ cit_section = <<>>
    /\ cit_found = <<>>
    /\ cit_result = <<>>

ChapUnused ==
    /\ chap_cands = <<>>
    /\ chap_kept = <<>>

SeqUnused == ctx_run = <<>>

DwUnused ==
    /\ dw_text = <<>>
    /\ dw_out = <<>>

SendUnused ==
    /\ sent = <<>>
    /\ req = <<>>

ApiUnused ==
    /\ api_ctors = <<>>
    /\ api_registered = 0
    /\ api_tasks = <<>>
    /\ api_responses = <<>>

LateUnused == DecUnused /\ CitUnused /\ ChapUnused /\ SeqUnused /\ DwUnused /\ SendUnused /\ ApiUnused
DecOthersUnused == CitUnused /\ ChapUnused /\ SeqUnused /\ DwUnused /\ SendUnused /\ ApiUnused
CitOthersUnused == DecUnused /\ ChapUnused /\ SeqUnused /\ DwUnused /\ SendUnused /\ ApiUnused
ChapOthersUnused == DecUnused /\ CitUnused /\ SeqUnused /\ DwUnused /\ SendUnused /\ ApiUnused
SeqOthersUnused == DecUnused /\ CitUnused /\ ChapUnused /\ DwUnused /\ SendUnused /\ ApiUnused
DwOthersUnused == DecUnused /\ CitUnused /\ ChapUnused /\ SeqUnused /\ SendUnused /\ ApiUnused
SendOthersUnused == DecUnused /\ CitUnused /\ ChapUnused /\ SeqUnused /\ DwUnused /\ ApiUnused
ApiOthersUnused == DecUnused /\ CitUnused /\ ChapUnused /\ SeqUnused /\ DwUnused /\ SendUnused

RestUnused == CtxUnused /\ PoolUnused /\ TextUnused /\ ParseUnused /\ LateUnused

BucketUnused ==
    /\ now = 0
    /\ tokens = 0
    /\ last_refill = 0
    /\ lock = 0
    /\ tpc = <<>>
    /\ wake = <<>>
    /\ calls = 0
    /\ grants = <<>>
    /\ returns = <<>>

(***************************************************************************)
(* prune_by_ontology.  A graph is the sequence of its components; a        *)
(* component is [id, paragraph_id, classification, relationships] and a    *)
(* relationship [target_id, type, direction, justification].               *)
(***************************************************************************)
component_ids(G) == {G[i].id : i \in 1..Len(G)}

\* the "quick validation checks" of the first pass
Pass1Keeps(G, rel) ==
    /\ rel.target_id \in component_ids(G)
    /\ rel.direction \in {"outgoing", "incoming"}
    /\ rel.type \in DOMAIN relationship_rules

\* a first pass that filters the relationships but keeps every component
Pass1_KeepsInvalid(G) ==
    [k \in 1..Len(G) |->
        [G[k] EXCEPT !.relationships =
            Filter(G[k].relationships,
                   {r \in Range(G[k].relationships) : Pass1Keeps(G, r)})]]

\* first pass: drop invalid components, filter the relationships of the others
Pass1(G) ==
    LET valid == {c \in Range(G) : c.classification \in valid_classes}
        strip(c) == [c EXCEPT !.relationships =
                        Filter(c.relationships,
                               {r \in Range(c.relationships) : Pass1Keeps(G, r)})]
        kept == Filter(G, valid)
    IN  [i \in 1..Len(kept) |-> strip(kept[i])]

valid_component_ids(G) == {c.id : c \in Range(Pass1(G))}

\* {comp["id"]: comp["classification"] for comp in final_components}:
\* a later component with the same id overwrites an earlier one
classification_map(G) ==
    LET F == Pass1(G)
    IN  [id \in valid_component_ids(G) |->
            F[CHOOSE i \in 1..Len(F) :
                /\ F[i].id = id
                /\ \A j \in (i+1)..Len(F) : F[j].id # id].classification]

\* a second pass that reads an incoming relationship like an outgoing one
is_valid_NoSwap(source_class, rel, target_class) ==
    /\ rel.direction \in {"outgoing", "incoming"}
    /\ source_class \in relationship_rules[rel.type].valid_sources
    /\ target_class \in relationship_rules[rel.type].valid_targets

\* is_valid of the second pass, for a relationship of a component of class
\* source_class whose target has class target_class
is_valid(source_class, rel, target_class) ==
    LET rules == relationship_rules[rel.type]
    IN  IF rel.direction = "outgoing"
        THEN source_class \in rules.valid_sources /\ target_class \in rules.valid_targets
        ELSE IF rel.direction = "incoming"
        THEN target_class \in rules.valid_sources /\ source_class \in rules.valid_targets
        ELSE FALSE

Pass2Keeps(G, c, rel) ==
    /\ rel.target_id \in valid_component_ids(G)
    /\ classification_map(G)[rel.target_id] # ""
    /\ is_valid(c.classification, rel, classification_map(G)[rel.target_id])

\* a pruner that stops after the first pass
prune_FirstPassOnly(G) == Pass1(G)

\* the components of the graph prune_by_ontology returns
prune_by_ontology(G) ==
    LET F == Pass1(G)
        strip(c) == [c EXCEPT !.relationships =
                        Filter(c.relationships,
                               {r \in Range(c.relationships) : Pass2Keeps(G, c, r)})]
    IN  [i \in 1..Len(F) |-> strip(F[i])]

(***************************************************************************)
(* get_relationships_from_graph.                                           *)
(***************************************************************************)
\* a materializer that never swaps the endpoints
RelRecord_NoSwap(c, rel, idmap) ==
    IF rel.direction \notin {"outgoing", "incoming"} THEN <<>>
    ELSE IF c.id \notin DOMAIN idmap \/ rel.target_id \notin DOMAIN idmap THEN <<>>
    ELSE << [source_atom_id |-> idmap[c.id],
             target_atom_id |-> idmap[rel.target_id],
             type           |-> rel.type,
             justification  |-> rel.justification] >>

\* the record one relationship of component c yields, as a sequence of
\* length 0 or 1
RelRecord(c, rel, idmap) ==
    IF rel.direction \notin {"outgoing", "incoming"} THEN <<>>
    ELSE LET source_graph_id == IF rel.direction = "outgoing" THEN c.id ELSE rel.target_id
             target_graph_id == IF rel.direction = "outgoing" THEN rel.target_id ELSE c.id
         IN  IF source_graph_id \notin DOMAIN idmap \/ target_graph_id \notin DOMAIN idmap
             THEN <<>>
             ELSE << [source_atom_id |-> idmap[source_graph_id],
                      target_atom_id |-> idmap[target_graph_id],
                      type           |-> rel.type,
                      justification  |-> rel.justification] >>

RECURSIVE RelsOfComponent(_, _, _)
RelsOfComponent(c, rels, idmap) ==
    IF rels = <<>> THEN <<>>
    ELSE RelRecord(c, Head(rels), idmap) \o RelsOfComponent(c, Tail(rels), idmap)

RECURSIVE relationships_for_db(_, _)
relationships_for_db(G, idmap) ==
    IF G = <<>> THEN <<>>
    ELSE RelsOfComponent(Head(G), Head(G).relationships, idmap)
            \o relationships_for_db(Tail(G), idmap)

rel_tuple(rel) == <<rel.source_atom_id, rel.target_atom_id, rel.type>>

\* no deduplication at all
Dedup_KeepsAll(rels, seen) == rels

RECURSIVE Dedup(_, _)
\* unique_relationships: keep a record unless its tuple was seen before
Dedup(rels, seen) ==
    IF rels = <<>> THEN <<>>
    ELSE IF rel_tuple(Head(rels)) \notin seen
         THEN <<Head(rels)>> \o Dedup(Tail(rels), seen \cup {rel_tuple(Head(rels))})
         ELSE Dedup(Tail(rels), seen)

get_relationships_from_graph(G, idmap) == Dedup(relationships_for_db(G, idmap), {})

(***************************************************************************)
(* SpecPrune: the two functions applied to every bounded input graph.      *)
(***************************************************************************)
GraphIds == <<"a1", "a2", "a3", "a4", "a5">>
MissingId == "zz"

PruneClasses == {"Claim", "Evidence", "Error"}
PruneTypes == {"supports", "illustrates", "bogus"}
PruneDirections == {"outgoing", "incoming", "sideways"}

\* db ids as PGVector.add_atoms would hand them out: one per graph id
DbId(id) == 100 + (CHOOSE i \in 1..Len(GraphIds) : GraphIds[i] = id)

Proposals ==
    [src : 1..NumComps,
     target_id : {GraphIds[i] : i \in 1..NumComps} \cup {MissingId},
     type : PruneTypes,
     direction : PruneDirections]

\* the relationships of component i: the proposals made by i, in order; the
\* justification names the proposal, so that two records are told apart
RelsOf(props, i) ==
    LET mine == {k \in 1..Len(props) : props[k].src = i}
        rel(k) == [target_id |-> props[k].target_id, type |-> props[k].type,
                   direction |-> props[k].direction,
                   justification |-> GraphIds[i] \o "#" \o ToString(k)]
        RECURSIVE build(_)
        build(k) == IF k > Len(props) THEN <<>>
                    ELSE IF k \in mine THEN <<rel(k)>> \o build(k + 1)
                    ELSE build(k + 1)
    IN  build(1)

GraphOf(classes, props) ==
    [i \in 1..NumComps |->
        [id |-> GraphIds[i], paragraph_id |-> 1,
         classification |-> classes[i], relationships |-> RelsOf(props, i)]]


\* the maps handed to get_relationships_from_graph: every graph id but at
\* most one has a db id
IdMaps ==
    LET all == {GraphIds[i] : i \in 1..NumComps}
    IN  {[id \in D |-> DbId(id)] : D \in {all} \cup {all \ {x} : x \in all}}

InitPrune ==
    /\ pc = "start"
    /\ \E classes \in [1..NumComps -> PruneClasses], props \in SeqsUpTo(Proposals, MaxRels) :
        graph = GraphOf(classes, props)
    /\ pruned = <<>>
    /\ pruned2 = <<>>
    /\ atom_id_map = <<>>
    /\ rels_out = <<>>
    /\ LLMUnused
    /\ PipeUnused
    /\ BucketUnused
    /\ RestUnused

Prune ==
    /\ pc = "start"
    /\ pruned' = prune_by_ontology(graph)
    /\ pc' = "pruned"
    /\ UNCHANGED <<graph, pruned2, dbVars, llmVars, pipeVars, bucketVars, restVars>>

PruneAgain ==
    /\ pc = "pruned"
    /\ pruned2' = prune_by_ontology(pruned)
    /\ pc' = "pruned2"
    /\ UNCHANGED <<graph, pruned, dbVars, llmVars, pipeVars, bucketVars, restVars>>

GetRelationships ==
    /\ pc = "pruned2"
    /\ \E m \in IdMaps :
        /\ atom_id_map' = m
        /\ rels_out' = get_relationships_from_graph(graph, m)
    /\ pc' = "rels"
    /\ UNCHANGED <<pruneVars, llmVars, pipeVars, bucketVars, restVars>>

NextPrune == Prune \/ PruneAgain \/ GetRelationships

SpecPrune == InitPrune /\ [][NextPrune]_vars


(***************************************************************************)
(* Claims about prune_by_ontology and get_relationships_from_graph.        *)
(***************************************************************************)
IdsOf(G) == {G[i].id : i \in 1..Len(G)}
CompById(G, id) == CHOOSE c \in Range(G) : c.id = id

\* C1: the graph prune_by_ontology returns holds only components whose
\* classification is in valid_classes, and every relationship it keeps has a
\* target_id that is the id of a returned component, a type that is a key of
\* the ontology's relationships and a direction in {outgoing, incoming}.
C1_PrunedGraphIsClosed ==
    pc # "start" =>
        \A c \in Range(pruned) :
            /\ c.classification \in valid_classes
            /\ \A r \in Range(c.relationships) :
                /\ r.target_id \in IdsOf(pruned)
                /\ r.type \in DOMAIN relationship_rules
                /\ r.direction \in {"outgoing", "incoming"}

\* a component was dropped, a relationship towards it was proposed by a
\* surviving component, and some relationship survived
C1_Witness ==
    /\ pc = "pruned"
    /\ \E c \in Range(graph) : c.classification \notin valid_classes
    /\ \E c \in Range(graph) :
        /\ c.id \in IdsOf(pruned)
        /\ \E r \in Range(c.relationships) :
            r.target_id \in IdsOf(graph) \ IdsOf(pruned)
    /\ \E c \in Range(pruned) : c.relationships # <<>>

C2_RuleAllows(s_class, rel, g_class) ==
    /\ rel.type \in DOMAIN relationship_rules
    /\ \/ /\ rel.direction = "outgoing"
          /\ s_class \in relationship_rules[rel.type].valid_sources
          /\ g_class \in relationship_rules[rel.type].valid_targets
       \/ /\ rel.direction = "incoming"
          /\ g_class \in relationship_rules[rel.type].valid_sources
          /\ s_class \in relationship_rules[rel.type].valid_targets

\* C2: of the relationships a surviving atom s proposed towards a surviving
\* atom g, prune_by_ontology keeps exactly those whose type t and direction
\* satisfy: outgoing and class(s) in t.valid_sources and class(g) in
\* t.valid_targets, or incoming and class(g) in t.valid_sources and class(s)
\* in t.valid_targets; it keeps nothing that was not proposed.
C2_KeepsExactlyRuleConforming ==
    pc # "start" =>
        \A s \in Range(pruned) :
            LET orig == CompById(graph, s.id)
            IN  /\ Range(s.relationships) \subseteq Range(orig.relationships)
                /\ \A rel \in Range(orig.relationships) :
                    rel.target_id \in IdsOf(pruned) =>
                        ( rel \in Range(s.relationships)
                          <=> C2_RuleAllows(s.classification, rel,
                                            CompById(graph, rel.target_id).classification) )

\* an incoming relationship was kept and a relationship between two
\* surviving atoms, of a known type and direction, was dropped
C2_Witness ==
    /\ pc = "pruned"
    /\ \E s \in Range(pruned) : \E r \in Range(s.relationships) : r.direction = "incoming"
    /\ \E s \in Range(pruned) :
        \E r \in Range(CompById(graph, s.id).relationships) :
            /\ r.target_id \in IdsOf(pruned)
            /\ r.type \in DOMAIN relationship_rules
            /\ r.direction \in {"outgoing", "incoming"}
            /\ r \notin Range(s.relationships)

\* C5: prune_by_ontology is idempotent: pruning the pruned graph again
\* returns the same components with the same relationships.
C5_PruneIdempotent ==
    pc \in {"pruned2", "rels"} => pruned2 = pruned

\* the first application dropped a component and a relationship that
\* pointed at it, and kept another relationship
C5_Witness ==
    /\ pc = "pruned2"
    /\ Len(pruned) < Len(graph)
    /\ \E c \in Range(graph) :
        /\ c.id \in IdsOf(pruned)
        /\ \E r \in Range(c.relationships) :
            r.target_id \in IdsOf(graph) \ IdsOf(pruned)
    /\ \E c \in Range(pruned2) : c.relationships # <<>>

\* the component/relationship pairs of a graph, in component order
RelPositions(G) == {<<i, k>> : i \in 1..Len(G), k \in 1..MaxRels + 1} \cap
                   {p \in (1..Len(G)) \X (1..MaxRels + 1) : p[2] <= Len(G[p[1]].relationships)}
Before(p, q) == p[1] < q[1] \/ (p[1] = q[1] /\ p[2] < q[2])

\* the record the claim expects of the relationship at position p
C6_HasRecord(G, p, idmap) ==
    LET A == G[p[1]].id
        rel == G[p[1]].relationships[p[2]]
    IN  /\ rel.direction \in {"outgoing", "incoming"}
        /\ A \in DOMAIN idmap
        /\ rel.target_id \in DOMAIN idmap

C6_Expected(G, p, idmap) ==
    LET A == G[p[1]].id
        rel == G[p[1]].relationships[p[2]]
    IN  [source_atom_id |-> IF rel.direction = "outgoing" THEN idmap[A] ELSE idmap[rel.target_id],
         target_atom_id |-> IF rel.direction = "outgoing" THEN idmap[rel.target_id] ELSE idmap[A],
         type |-> rel.type,
         justification |-> rel.justification]

\* C6: a relationship proposed by A with target B becomes the record
\* (source=A, target=B) when outgoing and (source=B, target=A) when incoming;
\* a relationship with another direction or with an endpoint missing from
\* atom_id_map produces no record; no record comes from anything else.
C6_CanonicalOutgoingForm ==
    pc = "rels" =>
        /\ \A p \in RelPositions(graph) :
            LET j == graph[p[1]].relationships[p[2]].justification
            IN  IF C6_HasRecord(graph, p, atom_id_map)
                THEN LET e == C6_Expected(graph, p, atom_id_map)
                     IN  /\ \E r \in Range(rels_out) : rel_tuple(r) = rel_tuple(e)
                         /\ \A r \in Range(rels_out) : r.justification = j => r = e
                ELSE \A r \in Range(rels_out) : r.justification # j
        /\ \A r \in Range(rels_out) :
            \E p \in RelPositions(graph) :
                r.justification = graph[p[1]].relationships[p[2]].justification

\* an incoming relationship became a record with the proposer as target,
\* while a relationship with an unknown direction and one with an endpoint
\* outside the map were proposed
C6_Witness ==
    /\ pc = "rels"
    /\ \E p \in RelPositions(graph) :
        /\ graph[p[1]].relationships[p[2]].direction = "incoming"
        /\ graph[p[1]].relationships[p[2]].target_id # graph[p[1]].id
        /\ C6_HasRecord(graph, p, atom_id_map)
        /\ C6_Expected(graph, p, atom_id_map) \in Range(rels_out)
    /\ \E p \in RelPositions(graph) :
        \/ graph[p[1]].relationships[p[2]].direction = "sideways"
        \/ graph[p[1]].relationships[p[2]].target_id \notin DOMAIN atom_id_map

\* C7: the returned list holds at most one record per (source_atom_id,
\* target_atom_id, type), and the record kept for a triple is the one of the
\* first relationship, in component order, that yields the triple.
C7_UniqueTriples ==
    pc = "rels" =>
        /\ \A a, b \in 1..Len(rels_out) :
            rel_tuple(rels_out[a]) = rel_tuple(rels_out[b]) => a = b
        /\ \A r \in Range(rels_out) :
            \E p \in RelPositions(graph) :
                /\ C6_HasRecord(graph, p, atom_id_map)
                /\ r = C6_Expected(graph, p, atom_id_map)
                /\ \A q \in RelPositions(graph) :
                    (Before(q, p) /\ C6_HasRecord(graph, q, atom_id_map))
                        => rel_tuple(C6_Expected(graph, q, atom_id_map)) # rel_tuple(r)

\* the same edge was proposed as outgoing by one atom and as incoming by
\* the other, and a single record came out
C7_Witness ==
    /\ pc = "rels"
    /\ Len(rels_out) = 1
    /\ \E p, q \in RelPositions(graph) :
        /\ p[1] # q[1]
        /\ graph[p[1]].relationships[p[2]].direction = "outgoing"
        /\ graph[q[1]].relationships[q[2]].direction = "incoming"
        /\ C6_HasRecord(graph, p, atom_id_map)
        /\ C6_HasRecord(graph, q, atom_id_map)
        /\ rel_tuple(C6_Expected(graph, p, atom_id_map))
              = rel_tuple(C6_Expected(graph, q, atom_id_map))


(***************************************************************************)
(* SpecLLM: one process_atom call.                                         *)
(***************************************************************************)
FailureKinds == {"429", "error"}

ReplyClassifications ==
    {Absent, Str("Claim"), Str("Evidence"), Str("Nonsense"), Str("Error"), Unhashable, Num}

ReplyRelElems ==
    {RelElem("str", Absent, Absent, Absent, Absent)} \cup
    {RelElem("dict", tg, ty, d, j) :
        tg \in {Absent, Str("a1")},
        ty \in {Absent, Str("supports"), Str("bogus"), Unhashable},
        d \in {Absent, Str("outgoing"), Str("incoming"), Str("sideways"), Unhashable},
        j \in {Absent, Str("because")}}

ReplyRelationships ==
    {NoRelationships, [t |-> "str", items |-> <<>>]} \cup
    {RelList(items) : items \in SeqsUpTo(ReplyRelElems, MaxReplyRels)}

\* the JSON texts the provider can answer with, parsed
ParseableReplies ==
    {Dict(c, r, Str("why")) : c \in ReplyClassifications, r \in ReplyRelationships}
    \cup {Dict(Absent, NoRelationships, Absent), Dict(Absent, NoRelationships, Str("why"))}
    \cup {None}
    \cup {Value("num", v) : v \in {"zero", "nonzero"}}
    \cup {Value("bool", v) : v \in {"true", "false"}}
    \cup {Value("str", v) : v \in {"empty", "plain", "has_classification"}}
    \cup {Value("list", v) : v \in {"empty", "plain", "has_classification"}}

InitLLM ==
    /\ pc = "llm_start"
    /\ retries \in 0..MaxRetries
    /\ loop_i = 0
    /\ attempts = 0
    /\ failures = <<>>
    /\ sleeps = <<>>
    /\ consumed = 0
    /\ parsed_response = None
    /\ llm_result = [kind |-> "none", value |-> None]
    /\ graph = <<>>
    /\ pruned = <<>>
    /\ pruned2 = <<>>
    /\ atom_id_map = <<>>
    /\ rels_out = <<>>
    /\ PipeUnused
    /\ BucketUnused
    /\ RestUnused

\* a call that goes to the API without asking the rate limiter
ConsumeOnce_Skipped(c) == c

\* the tokens taken so far, after self.rate_limiter.consume() has returned
ConsumeOnce(c) == c + 1

\* self.rate_limiter.consume(), before the loop
Consume ==
    /\ pc = "llm_start"
    /\ consumed' = ConsumeOnce(consumed)
    /\ pc' = "loop"
    /\ UNCHANGED <<retries, loop_i, attempts, failures, sleeps, parsed_response, llm_result>>
    /\ UNCHANGED <<pruneVars, dbVars, pipeVars, bucketVars, restVars>>

\* an attempt whose response text parses: return json.loads(response_text)
RequestSucceeds ==
    /\ pc = "loop"
    /\ loop_i < retries
    /\ \E reply \in ParseableReplies : parsed_response' = reply
    /\ attempts' = attempts + 1
    /\ pc' = "returned"
    /\ UNCHANGED <<retries, loop_i, failures, sleeps, consumed, llm_result>>
    /\ UNCHANGED <<pruneVars, dbVars, pipeVars, bucketVars, restVars>>

\* an attempt that raises (a status error, no choices, an empty text, a
\* JSONDecodeError), the except clause and the sleep that follows it
RequestFails ==
    /\ pc = "loop"
    /\ loop_i < retries
    /\ \E kind \in FailureKinds :
        /\ failures' = Append(failures, kind)
        /\ sleeps' = AfterFailure(kind, loop_i, retries, sleeps)
    /\ attempts' = attempts + 1
    /\ loop_i' = loop_i + 1
    /\ UNCHANGED <<pc, retries, consumed, parsed_response, llm_result>>
    /\ UNCHANGED <<pruneVars, dbVars, pipeVars, bucketVars, restVars>>

\* the loop ran out: return None
ReturnNone ==
    /\ pc = "loop"
    /\ loop_i >= retries
    /\ parsed_response' = None
    /\ pc' = "returned"
    /\ UNCHANGED <<retries, loop_i, attempts, failures, sleeps, consumed, llm_result>>
    /\ UNCHANGED <<pruneVars, dbVars, pipeVars, bucketVars, restVars>>

\* the rest of process_atom
ProcessAtomEnds ==
    /\ pc = "returned"
    /\ llm_result' = process_atom(parsed_response)
    /\ pc' = "atom_done"
    /\ UNCHANGED <<retries, loop_i, attempts, failures, sleeps, consumed, parsed_response>>
    /\ UNCHANGED <<pruneVars, dbVars, pipeVars, bucketVars, restVars>>

NextLLM == Consume \/ RequestSucceeds \/ RequestFails \/ ReturnNone \/ ProcessAtomEnds

SpecLLM == InitLLM /\ [][NextLLM]_vars


(***************************************************************************)
(* Claims about _run_completion_request and process_atom.                  *)
(***************************************************************************)
LLMReturned == pc \in {"returned", "atom_done"}

\* C8: one call makes at most `retries` attempts; it stops at the first
\* attempt that returns parseable JSON; after failed attempt k (0-based) it
\* sleeps backoff_factor * 2^k exactly when k < retries - 1, whatever the
\* kind of the failure (429 or not); it returns None after `retries`
\* failures in a row.
C8_RetryLoop ==
    /\ attempts <= retries
    /\ attempts \in {Len(failures), Len(failures) + 1}
    /\ attempts = Len(failures) + 1 => LLMReturned
    /\ Len(sleeps) = (IF Len(failures) < retries THEN Len(failures)
                      ELSE IF retries = 0 THEN 0 ELSE retries - 1)
    /\ \A k \in 1..Len(sleeps) : sleeps[k] = backoff_factor_ms * Pow2(k - 1)
    /\ (LLMReturned /\ attempts = Len(failures)) =>
            (Len(failures) = retries /\ parsed_response = None)
    /\ (pc = "loop" /\ Len(failures) = retries) => ~ENABLED RequestSucceeds

\* two failures, one of them a 429, then a reply on the third and last
\* attempt
C8_Witness ==
    /\ pc = "returned"
    /\ retries = 3
    /\ failures = <<"429", "error">>
    /\ attempts = 3
    /\ sleeps = <<100, 200>>
    /\ parsed_response # None

\* all three attempts failed, the last one with a 429
C8_WitnessExhausted ==
    /\ pc = "returned"
    /\ retries = 3
    /\ failures = <<"error", "error", "429">>
    /\ parsed_response = None

C9_Validated(r) ==
    /\ r.t = "dict"
    /\ r.classification.t = "str"
    /\ r.classification.v \in valid_classes
    /\ r.relationships.t = "list"
    /\ \A k \in 1..Len(r.relationships.items) :
        LET rel == r.relationships.items[k]
        IN  /\ rel.t = "dict"
            /\ rel.target_id # Absent
            /\ rel.justification # Absent
            /\ rel.type.t = "str"
            /\ rel.type.v \in DOMAIN relationship_rules
            /\ rel.direction.t = "str"
            /\ rel.direction.v \in {"outgoing", "incoming"}

\* C9: for every classifier reply, process_atom does not raise and returns
\* either a reply whose classification is in valid_classes and whose
\* relationships is a list of objects with target_id, justification, a type
\* of the ontology and a direction in {outgoing, incoming}, or exactly the
\* fallback (classification "Error", no relationships).
C9_ValidatedOrFallback ==
    pc = "atom_done" =>
        /\ llm_result.kind = "return"
        /\ \/ llm_result.value = Fallback
           \/ C9_Validated(llm_result.value)

\* C11: one classifier call takes exactly one token from the bucket, and it
\* has taken it before its first request is sent, however many attempts it
\* then makes.
C11_OneTokenPerCall ==
    /\ pc = "llm_start" => (consumed = 0 /\ attempts = 0)
    /\ pc # "llm_start" => consumed = 1
    /\ attempts >= 1 => consumed = 1

\* a call that made three attempts and has returned with one token taken
C11_Witness ==
    /\ pc = "atom_done"
    /\ attempts = 3
    /\ Len(failures) >= 2
    /\ consumed = 1

(***************************************************************************)
(* build_graph and the hand-off of its result.                             *)
(***************************************************************************)
max_chapter_workers == 4
max_subsection_workers == 4

\* the parsed document: chapter 1 has two chapter-level paragraphs, chapter 2
\* a subsection and a Notes subsection, which the constructor skips
Doc ==
    << [title |-> "Chapter 1", subsections |-> <<>>,
        paragraphs |-> << [id |-> 1, atoms |-> 1], [id |-> 2, atoms |-> 1] >>],
       [title |-> "Chapter 2", paragraphs |-> <<>>,
        subsections |->
            << [id |-> 1, title |-> "Background",
                paragraphs |-> << [id |-> 1, atoms |-> 1] >>],
               [id |-> 2, title |-> "Notes",
                paragraphs |-> << [id |-> 1, atoms |-> 1] >>] >>] >>

Chapters == 1..Len(Doc)

\* subsections_to_process, as indices into the chapter's subsections
SubsectionsToProcess(c) ==
    {k \in 1..Len(Doc[c].subsections) : Doc[c].subsections[k].title # "Notes"}

\* the sequences of the document: <<c, 0>> is the chapter level of chapter
\* c, <<c, k>> its k-th subsection
Units == {<<c, 0>> : c \in Chapters} \cup
         UNION {{<<c, k>> : k \in SubsectionsToProcess(c)} : c \in Chapters}

UnitParagraphs(u) ==
    IF u[2] = 0 THEN Doc[u[1]].paragraphs ELSE Doc[u[1]].subsections[u[2]].paragraphs

RECURSIVE AtomsOfParagraphs(_)
\* the atoms of a sequence in reading order: paragraph id and 1-based index
AtomsOfParagraphs(paras) ==
    IF paras = <<>> THEN <<>>
    ELSE [k \in 1..Head(paras).atoms |-> [paragraph_id |-> Head(paras).id, n |-> k]]
            \o AtomsOfParagraphs(Tail(paras))

UnitAtoms(u) == AtomsOfParagraphs(UnitParagraphs(u))

\* f"chap{chapter_idx}_par{...}_atom{atom_idx+1}" and its subsection form
AtomId(u, a) ==
    "chap" \o ToString(u[1] - 1)
        \o (IF u[2] = 0 THEN ""
            ELSE "_sec" \o ToString(Doc[u[1]].subsections[u[2]].id))
        \o "_par" \o ToString(a.paragraph_id) \o "_atom" \o ToString(a.n)

AllAtomIds == UNION {{AtomId(u, UnitAtoms(u)[k]) : k \in 1..Len(UnitAtoms(u))} : u \in Units}

RECURSIVE SumOver(_, _)
SumOver(S, f) ==
    IF S = {} THEN 0
    ELSE LET x == CHOOSE y \in S : TRUE IN f[x] + SumOver(S \ {x}, f)

\* _count_atoms_in_chapter summed over the chapters
CountAtoms == SumOver(Units, [u \in Units |-> Len(UnitAtoms(u))])

\* the annotated component of an atom, given what process_atom returned:
\* llm_response.get("classification", "Error"), .get("relationships", [])
AnnotatedComponent(u, a, response) ==
    [id |-> AtomId(u, a),
     chapter_title |-> Doc[u[1]].title,
     section_id |-> IF u[2] = 0 THEN 0 ELSE Doc[u[1]].subsections[u[2]].id,
     paragraph_id |-> a.paragraph_id,
     classification |-> IF response.classification = Absent THEN "Error"
                        ELSE response.classification.v,
     relationships |->
        [k \in 1..Len(response.relationships.items) |->
            [target_id |-> response.relationships.items[k].target_id.v,
             type |-> response.relationships.items[k].type.v,
             direction |-> response.relationships.items[k].direction.v,
             justification |-> response.relationships.items[k].justification.v]]]

RECURSIVE ConcatUnits(_, _, _)
\* chapter_components: the chapter level, then each subsection in order
ConcatUnits(c, k, us) ==
    IF k > Len(Doc[c].subsections) THEN <<>>
    ELSE (IF <<c, k>> \in Units THEN us[<<c, k>>].comps ELSE <<>>)
            \o ConcatUnits(c, k + 1, us)

ChapterComponents(c, us) == us[<<c, 0>>].comps \o ConcatUnits(c, 1, us)

\* a pruner that builds its result from copies and leaves its input alone
MutatedComponents_Untouched(G) == G

\* what prune_by_ontology leaves in the list it was given: the components
\* it keeps are the dicts of that list and get their relationships
\* replaced, the others stay as they were
MutatedComponents(G) ==
    LET P == prune_by_ontology(G)
        rank(k) == Cardinality({j \in 1..k : G[j].classification \in valid_classes})
    IN  [k \in 1..Len(G) |->
            IF G[k].classification \in valid_classes THEN P[rank(k)] ELSE G[k]]

\* a component without a mapping kept with its own paragraph id
AtomRecord_Unmapped(c, pmap) ==
    << [graph_id |-> c.id,
        paragraph_id |-> IF ToString(c.paragraph_id) \in DOMAIN pmap
                         THEN pmap[ToString(c.paragraph_id)] ELSE c.paragraph_id,
        classification |-> c.classification] >>

\* the body of the loop of get_atoms_from_graph: the record of a component
\* whose str(paragraph_id) is a key of paragraph_id_map, nothing otherwise
AtomRecord(c, pmap) ==
    IF ToString(c.paragraph_id) \in DOMAIN pmap
    THEN << [graph_id |-> c.id,
             paragraph_id |-> pmap[ToString(c.paragraph_id)],
             classification |-> c.classification] >>
    ELSE <<>>

RECURSIVE get_atoms_from_graph(_, _)
get_atoms_from_graph(G, pmap) ==
    IF G = <<>> THEN <<>>
    ELSE AtomRecord(Head(G), pmap) \o get_atoms_from_graph(Tail(G), pmap)

\* PGVector.add_atoms: graph_id -> the id the database returned for the
\* insert; the ids of one batch increase with the position in the batch
add_atoms(atoms) ==
    [g \in {atoms[k].graph_id : k \in 1..Len(atoms)} |->
        100 + (CHOOSE k \in 1..Len(atoms) :
                /\ atoms[k].graph_id = g
                /\ \A j \in (k + 1)..Len(atoms) : atoms[j].graph_id # g)]

(***************************************************************************)
(* SpecPipeline: _run_graph_construction on Doc, with a classifier that    *)
(* answers each atom with any of PipelineReplies or fails.                 *)
(***************************************************************************)
PipelineRelElems ==
    {RelElem("dict", Str(tg), Str(ty), Str(d), Str("because")) :
        tg \in AllAtomIds \cup {MissingId},
        ty \in DOMAIN relationship_rules,
        d \in {"outgoing", "incoming"}}

\* what _run_completion_request can hand to process_atom: None, a well
\* formed reply, or a reply that check_taxonomy rejects or chokes on
PipelineParsed ==
    {None}
    \cup {Dict(Str(c), RelList(items), Str("why")) :
            c \in {"Claim", "Evidence"}, items \in SeqsUpTo(PipelineRelElems, MaxReplyRels)}
    \cup {Dict(Str("Nonsense"),
               RelList(<<RelElem("dict", Str(MissingId), Str("supports"),
                                 Str("outgoing"), Str("because"))>>), Str("why")),
          Dict(Str("Claim"),
               RelList(<<RelElem("dict", Str(MissingId), Str("bogus"),
                                 Str("outgoing"), Str("because"))>>), Str("why")),
          Dict(Str("Claim"),
               RelList(<<RelElem("dict", Str(MissingId), Str("supports"),
                                 Str("sideways"), Str("because"))>>), Str("why")),
          Dict(Unhashable, RelList(<<>>), Str("why"))}

ParagraphIdMaps ==
    {[key \in D |-> IF key = "1" THEN 11 ELSE 12] : D \in {{}, {"1"}, {"1", "2"}}}

\* relationships recorded so far
Proposed(us) == SumOver(Units, [u \in Units |->
                    SumOver(1..Len(us[u].comps),
                            [k \in 1..Len(us[u].comps) |-> Len(us[u].comps[k].relationships)])])

InitPipeline ==
    /\ pc = "pipe_idle"
    /\ current_status = "idle"
    /\ total_atoms = 0
    /\ processed_atoms = 0
    /\ chapter_state = [c \in Chapters |-> "queued"]
    /\ units = [u \in Units |-> [comps |-> <<>>, raised |-> FALSE, counted |-> TRUE]]
    /\ annotated_components = <<>>
    /\ next_future = 1
    /\ returned = <<>>
    /\ paragraph_id_map \in ParagraphIdMaps
    /\ atoms_for_db = <<>>
    /\ atom_id_map = <<>>
    /\ rels_out = <<>>
    /\ PruneUnused
    /\ LLMUnused
    /\ BucketUnused
    /\ RestUnused

pipeRest == <<pruneVars, llmVars, bucketVars, restVars>>

\* build_graph up to the submission of the chapters
StartBuild ==
    /\ pc = "pipe_idle"
    /\ annotated_components' = <<>>
    /\ processed_atoms' = 0
    /\ total_atoms' = CountAtoms
    /\ IF CountAtoms > 0
       THEN /\ current_status' = "building"
            /\ pc' = "building"
            /\ UNCHANGED returned
       ELSE /\ current_status' = "complete"
            /\ pc' = "returned"
            /\ returned' = <<>>
    /\ UNCHANGED <<chapter_state, units, next_future, paragraph_id_map, atoms_for_db>>
    /\ UNCHANGED <<dbVars, pipeRest>>

Running(cs) == {c \in Chapters : cs[c] = "running"}

\* a pool thread takes _process_chapter(c) from the queue
StartChapter(c) ==
    /\ pc = "building"
    /\ chapter_state[c] = "queued"
    /\ \A d \in Chapters : d < c => chapter_state[d] # "queued"
    /\ Cardinality(Running(chapter_state)) < Min(Len(Doc), max_chapter_workers)
    /\ chapter_state' = [chapter_state EXCEPT ![c] = "running"]
    /\ UNCHANGED <<current_status, total_atoms, processed_atoms, units, annotated_components,
                   next_future, returned, paragraph_id_map, atoms_for_db>>
    /\ UNCHANGED <<pc, dbVars, pipeRest>>

UnitFinished(u, us) ==
    \/ Len(us[u].comps) = Len(UnitAtoms(u)) /\ us[u].counted
    \/ us[u].raised

\* the sequence u may process its next atom: the chapter level runs first,
\* the subsections after it, side by side
UnitEnabled(u, cs, us) ==
    /\ cs[u[1]] = "running"
    /\ ~UnitFinished(u, us)
    /\ us[u].counted
    /\ ~us[<<u[1], 0>>].raised
    /\ u[2] # 0 => UnitFinished(<<u[1], 0>>, us)
    /\ u[2] # 0 =>
        Cardinality({k \in SubsectionsToProcess(u[1]) :
                        k < u[2] /\ ~UnitFinished(<<u[1], k>>, us)})
            < Min(Cardinality(SubsectionsToProcess(u[1])), max_subsection_workers)

\* one process_atom call of the sequence u and the recording of its result
ProcessAtom(u) ==
    /\ pc = "building"
    /\ UnitEnabled(u, chapter_state, units)
    /\ \E parsed \in PipelineParsed :
        LET a == UnitAtoms(u)[Len(units[u].comps) + 1]
            out == process_atom(parsed)
        IN  /\ Proposed(units) + Len(parsed.relationships.items) <= MaxProposed
            /\ IF out.kind = "raise"
               THEN units' = [units EXCEPT ![u].raised = TRUE]
               ELSE units' = [units EXCEPT
                        ![u].comps = Append(@, AnnotatedComponent(u, a, out.value)),
                        ![u].counted = FALSE]
    /\ UNCHANGED <<current_status, total_atoms, processed_atoms, chapter_state,
                   annotated_components, next_future, returned, paragraph_id_map,
                   atoms_for_db>>
    /\ UNCHANGED <<pc, dbVars, pipeRest>>

\* an increment that is lost
Incremented_Lost(n) == n

\* self.processed_atoms += 1
Incremented(n) == n + 1

\* with self.print_lock: self.processed_atoms += 1, after the component of
\* the atom has been appended
CountAtom(u) ==
    /\ pc = "building"
    /\ ~units[u].counted
    /\ units' = [units EXCEPT ![u].counted = TRUE]
    /\ processed_atoms' = Incremented(processed_atoms)
    /\ UNCHANGED <<current_status, total_atoms, chapter_state, annotated_components,
                   next_future, returned, paragraph_id_map, atoms_for_db>>
    /\ UNCHANGED <<pc, dbVars, pipeRest>>

ChapterUnits(c) == {u \in Units : u[1] = c}

\* _process_chapter(c) returns its components or raises
ChapterEnds(c) ==
    /\ pc = "building"
    /\ chapter_state[c] = "running"
    /\ \/ units[<<c, 0>>].raised
       \/ \A u \in ChapterUnits(c) : UnitFinished(u, units)
    /\ chapter_state' = [chapter_state EXCEPT ![c] =
            IF \E u \in ChapterUnits(c) : units[u].raised THEN "failed" ELSE "done"]
    /\ UNCHANGED <<current_status, total_atoms, processed_atoms, units, annotated_components,
                   next_future, returned, paragraph_id_map, atoms_for_db>>
    /\ UNCHANGED <<pc, dbVars, pipeRest>>

\* results taken as the chapters complete
FutureReady_AsCompleted(c, nf, cs) == cs[c] = "done"

\* for future in futures: future.result(), in the order of submission
FutureReady(c, nf, cs) == c = nf /\ cs[c] = "done"

\* future.result() of a chapter returns: extend annotated_components
Collect(c) ==
    /\ pc = "building"
    /\ next_future <= Len(Doc)
    /\ FutureReady(c, next_future, chapter_state)
    /\ annotated_components' = annotated_components \o ChapterComponents(c, units)
    /\ next_future' = next_future + 1
    /\ chapter_state' = [chapter_state EXCEPT ![c] = "collected"]
    /\ UNCHANGED <<current_status, total_atoms, processed_atoms, units,
                   returned, paragraph_id_map, atoms_for_db>>
    /\ UNCHANGED <<pc, dbVars, pipeRest>>

\* future.result() re-raises: the executor waits for its workers, then
\* build_graph sets the status and raises
BuildRaises ==
    /\ pc = "building"
    /\ next_future <= Len(Doc)
    /\ chapter_state[next_future] = "failed"
    /\ \A c \in Chapters : chapter_state[c] \in {"done", "failed", "collected"}
    /\ current_status' = "error"
    /\ pc' = "raised"
    /\ UNCHANGED <<total_atoms, processed_atoms, chapter_state, units, annotated_components,
                   next_future, returned, paragraph_id_map, atoms_for_db>>
    /\ UNCHANGED <<dbVars, pipeRest>>

\* every future has been collected
StartFiltering ==
    /\ pc = "building"
    /\ next_future > Len(Doc)
    /\ current_status' = "filtering"
    /\ pc' = "filtering"
    /\ UNCHANGED <<total_atoms, processed_atoms, chapter_state, units, annotated_components,
                   next_future, returned, paragraph_id_map, atoms_for_db>>
    /\ UNCHANGED <<dbVars, pipeRest>>

\* filtered_graph = self.prune_by_ontology(raw_graph); return raw_graph
PruneAndReturn ==
    /\ pc = "filtering"
    /\ annotated_components' = MutatedComponents(annotated_components)
    /\ returned' = MutatedComponents(annotated_components)
    /\ current_status' = "complete"
    /\ pc' = "returned"
    /\ UNCHANGED <<total_atoms, processed_atoms, chapter_state, units, next_future,
                   paragraph_id_map, atoms_for_db>>
    /\ UNCHANGED <<dbVars, pipeRest>>

\* prune_by_ontology cannot read ontology.json or taxonomy.json, or finds
\* no "relationships" or "valid_classes" in them: the exception leaves
\* build_graph, which has no handler around the call
PruneRaises ==
    /\ pc = "filtering"
    /\ pc' = "raised"
    /\ UNCHANGED <<pipeVars, dbVars, pipeRest>>

\* the except clause of _run_graph_construction
RunFails ==
    /\ pc = "raised"
    /\ current_status' = "error"
    /\ pc' = "failed"
    /\ UNCHANGED <<total_atoms, processed_atoms, chapter_state, units, annotated_components,
                   next_future, returned, paragraph_id_map, atoms_for_db>>
    /\ UNCHANGED <<dbVars, pipeRest>>

\* atoms_to_add = get_atoms_from_graph(graph, document_id)
GetAtoms ==
    /\ pc = "returned"
    /\ atoms_for_db' = get_atoms_from_graph(returned, paragraph_id_map)
    /\ IF get_atoms_from_graph(returned, paragraph_id_map) = <<>>
       THEN current_status' = "complete_with_warnings" /\ pc' = "done"
       ELSE UNCHANGED current_status /\ pc' = "atoms"
    /\ UNCHANGED <<total_atoms, processed_atoms, chapter_state, units, annotated_components,
                   next_future, returned, paragraph_id_map>>
    /\ UNCHANGED <<dbVars, pipeRest>>

\* the persistence collaborator inserts the atoms and returns the id map
AddAtoms ==
    /\ pc = "atoms"
    /\ atom_id_map' = add_atoms(atoms_for_db)
    /\ pc' = "added"
    /\ UNCHANGED <<rels_out, pipeVars, pipeRest>>

\* rels_to_add = get_relationships_from_graph(graph, document_id, atom_id_map)
GetRelationshipsOfRun ==
    /\ pc = "added"
    /\ rels_out' = get_relationships_from_graph(returned, atom_id_map)
    /\ pc' = "done"
    /\ UNCHANGED <<atom_id_map, pipeVars, pipeRest>>

NextPipeline ==
    \/ StartBuild
    \/ \E c \in Chapters : StartChapter(c)
    \/ \E u \in Units : ProcessAtom(u)
    \/ \E u \in Units : CountAtom(u)
    \/ \E c \in Chapters : ChapterEnds(c)
    \/ \E c \in Chapters : Collect(c)
    \/ BuildRaises
    \/ StartFiltering
    \/ PruneAndReturn
    \/ PruneRaises
    \/ RunFails
    \/ GetAtoms
    \/ AddAtoms
    \/ GetRelationshipsOfRun

SpecPipeline == InitPipeline /\ [][NextPipeline]_vars

(***************************************************************************)
(* Claims about the pipeline.                                              *)
(***************************************************************************)
BuildReturned == pc \in {"returned", "atoms", "added", "done"}

\* C3: an atom whose classification is outside valid_classes (the fallback
\* "Error" included) is not a component of the graph build_graph returns,
\* and no atom record of get_atoms_from_graph carries such a
\* classification.
C3_ReturnedGraphHasNoErrorAtoms ==
    BuildReturned =>
        /\ \A c \in Range(returned) : c.classification \in valid_classes
        /\ \A a \in Range(atoms_for_db) : a.classification \in valid_classes

AtomOfDbId(id) ==
    CHOOSE a \in Range(atoms_for_db) : atom_id_map[a.graph_id] = id

\* C4: every relationship record of the pipeline has a source and a target
\* that are atom records with a classification in valid_classes, and its
\* type is an ontology type whose rule allows the class of the source as
\* source and the class of the target as target; the components with an
\* invalid classification contribute no record.
C4_RecordsConformToOntology ==
    pc = "done" =>
        /\ \A r \in Range(rels_out) :
            /\ \E a \in Range(atoms_for_db) : atom_id_map[a.graph_id] = r.source_atom_id
            /\ \E a \in Range(atoms_for_db) : atom_id_map[a.graph_id] = r.target_atom_id
            /\ AtomOfDbId(r.source_atom_id).classification \in valid_classes
            /\ AtomOfDbId(r.target_atom_id).classification \in valid_classes
            /\ r.type \in DOMAIN relationship_rules
            /\ AtomOfDbId(r.source_atom_id).classification
                    \in relationship_rules[r.type].valid_sources
            /\ AtomOfDbId(r.target_atom_id).classification
                    \in relationship_rules[r.type].valid_targets
        /\ \A c \in Range(returned) :
            c.classification \notin valid_classes =>
                RelsOfComponent(c, c.relationships, atom_id_map) = <<>>

\* a finished run that produced a record although the returned graph holds
\* an Error component with an atom record, and in which the pruner removed
\* a relationship the classifier had proposed
C4_Witness ==
    /\ pc = "done"
    /\ rels_out # <<>>
    /\ \E c \in Range(returned) :
        /\ c.classification = "Error"
        /\ c.id \in DOMAIN atom_id_map
    /\ Proposed(units) > SumOver(1..Len(returned),
                            [k \in 1..Len(returned) |-> Len(returned[k].relationships)])

\* the components appended so far, and those of them whose increment of
\* processed_atoms is still to come
Recorded == SumOver(Units, [u \in Units |-> Len(units[u].comps)])
AwaitingCount == Cardinality({u \in Units : ~units[u].counted})

\* C15: no increment of processed_atoms is lost: the counter is the number
\* of atoms recorded, less those whose worker has not yet passed the
\* increment; 0 <= processed_atoms <= total_atoms, and processed_atoms =
\* total_atoms once the status is filtering.
C15_ProgressCounter ==
    /\ processed_atoms = Recorded - AwaitingCount
    /\ processed_atoms >= 0
    /\ processed_atoms <= total_atoms
    /\ current_status = "filtering" => processed_atoms = total_atoms

\* two workers stand before their increment at once, after a first one
\* has been counted
C15_Witness ==
    /\ pc = "building"
    /\ AwaitingCount = 2
    /\ processed_atoms = 1
    /\ Recorded = total_atoms

\* C16: once build_graph has returned or raised, the status is complete or
\* error, whichever step failed.
C16_TerminalStatus ==
    pc \in {"returned", "raised"} => current_status \in {"complete", "error"}

\* within build_graph the status moves idle -> building -> filtering ->
\* complete, or building -> error
StatusMovesInOrder ==
    [][(pc \in {"pipe_idle", "building", "filtering"} /\ current_status' # current_status) =>
            <<current_status, current_status'>> \in
                {<<"idle", "building">>, <<"complete", "building">>,
                 <<"building", "filtering">>, <<"filtering", "complete">>,
                 <<"building", "error">>}]_vars

RECURSIVE InReadingOrder(_)
\* the components recorded by the sequences of S, the sequences taken by
\* chapter and, within a chapter, the chapter level first and then the
\* subsections by position
InReadingOrder(S) ==
    IF S = {} THEN <<>>
    ELSE LET u == CHOOSE x \in S :
                    \A y \in S : x[1] < y[1] \/ (x[1] = y[1] /\ x[2] <= y[2])
         IN  units[u].comps \o InReadingOrder(S \ {u})

\* C17: the graph build_graph returns and the atom and relationship records
\* made from it are a function of the document, the reply each atom got and
\* the id maps alone: whatever the interleaving of the workers, the
\* components are those of the atoms in reading order, pruned.
C17_ScheduleIndependent ==
    /\ (pc \in {"returned", "atoms", "added", "done"} /\ total_atoms > 0) =>
            returned = MutatedComponents(InReadingOrder(Units))
    /\ pc \in {"atoms", "added", "done"} =>
            atoms_for_db = get_atoms_from_graph(MutatedComponents(InReadingOrder(Units)),
                                                paragraph_id_map)
    /\ (pc = "done" /\ atoms_for_db # <<>>) =>
            rels_out = get_relationships_from_graph(
                            MutatedComponents(InReadingOrder(Units)),
                            add_atoms(get_atoms_from_graph(
                                MutatedComponents(InReadingOrder(Units)), paragraph_id_map)))

\* a finished run over both chapters with a record between them
C17_Witness ==
    /\ pc = "done"
    /\ Len(returned) = 3
    /\ Len(atoms_for_db) = 3
    /\ \E r \in Range(rels_out) :
        {r.source_atom_id, r.target_atom_id} = {101, 103}

\* the positions of the returned graph whose paragraph id has a mapping
MappedPositions ==
    {k \in 1..Len(returned) : ToString(returned[k].paragraph_id) \in DOMAIN paragraph_id_map}

\* C18: get_atoms_from_graph emits exactly one record for each component
\* whose paragraph id, as a string, is a key of paragraph_id_map, with the
\* mapped paragraph id and the component's id as graph_id, in the order of
\* the components; none for a component whose key is missing; and none at
\* all with the empty map.
C18_OneRecordPerMappedComponent ==
    pc \in {"atoms", "added", "done"} =>
        /\ Len(atoms_for_db) = Cardinality(MappedPositions)
        /\ \A k \in MappedPositions :
            LET j == Cardinality({x \in MappedPositions : x <= k})
            IN  /\ atoms_for_db[j].graph_id = returned[k].id
                /\ atoms_for_db[j].paragraph_id =
                        paragraph_id_map[ToString(returned[k].paragraph_id)]
                /\ \A i \in 1..Len(atoms_for_db) :
                        atoms_for_db[i].graph_id = returned[k].id => i = j
        /\ \A k \in (1..Len(returned)) \ MappedPositions :
            \A i \in 1..Len(atoms_for_db) : atoms_for_db[i].graph_id # returned[k].id
        /\ DOMAIN paragraph_id_map = {} => atoms_for_db = <<>>

\* the map knows paragraph 1 only: the second of three components is left
\* out and the third is mapped
C18_Witness ==
    /\ pc = "atoms"
    /\ DOMAIN paragraph_id_map = {"1"}
    /\ Len(returned) = 3
    /\ Len(atoms_for_db) = 2
    /\ atoms_for_db[2].graph_id = returned[3].id
    /\ atoms_for_db[2].paragraph_id = 11

\* no map came with the document: nothing is emitted for three components
C18_WitnessEmptyMap ==
    /\ pc = "done"
    /\ DOMAIN paragraph_id_map = {}
    /\ Len(returned) = 3
    /\ atoms_for_db = <<>>
    /\ current_status = "complete_with_warnings"

(***************************************************************************)
(* TokenBucketRateLimiter.  Time is counted in ticks of 1/TicksPerSecond   *)
(* seconds and tokens in 1/Scale of a token, so that the refill of one     *)
(* tick is a whole number of units.                                        *)
(***************************************************************************)
rate == 6
capacity == 6
TicksPerSecond == 12
Scale == TicksPerSecond \div rate
RefillPerTick == (rate * Scale) \div TicksPerSecond

\* a refill that forgets the capacity
Refill_NoCap(tok, elapsed) == tok + elapsed * RefillPerTick

\* a refill that forgets the time that has passed
Refill_NoTime(tok, elapsed) == tok

\* self.tokens = min(self.capacity, self.tokens + elapsed * self.rate)
Refill(tok, elapsed) == Min(capacity * Scale, tok + elapsed * RefillPerTick)

\* wait_time = (1 - self.tokens) / self.rate, in ticks, rounded up
WaitTime(tok) == ((Scale - tok) + RefillPerTick - 1) \div RefillPerTick

(***************************************************************************)
(* SpecBucket: NumThreads threads call consume() on one bucket, MaxCalls   *)
(* times in all, while the clock runs from 0 to MaxTime.                   *)
(***************************************************************************)
Threads == 1..NumThreads

\* TokenBucketRateLimiter.__init__
InitBucket ==
    /\ pc = "bucket"
    /\ now = 0
    /\ tokens = capacity * Scale
    /\ last_refill = 0
    /\ lock = 0
    /\ tpc = [t \in Threads |-> "idle"]
    /\ wake = [t \in Threads |-> 0]
    /\ calls = 0
    /\ grants = <<>>
    /\ returns = <<>>
    /\ PruneUnused
    /\ atom_id_map = <<>>
    /\ rels_out = <<>>
    /\ LLMUnused
    /\ PipeUnused
    /\ RestUnused

\* the clock advances
Tick ==
    /\ now < MaxTime
    /\ now' = now + 1
    /\ UNCHANGED <<tokens, last_refill, lock, tpc, wake, calls, grants, returns>>
    /\ UNCHANGED <<pc, pruneVars, dbVars, llmVars, pipeVars, restVars>>

\* a thread calls consume() and waits for the lock
CallConsume(t) ==
    /\ tpc[t] = "idle"
    /\ calls < MaxCalls
    /\ calls' = calls + 1
    /\ tpc' = [tpc EXCEPT ![t] = "acquire"]
    /\ UNCHANGED <<now, tokens, last_refill, lock, wake, grants, returns>>
    /\ UNCHANGED <<pc, pruneVars, dbVars, llmVars, pipeVars, restVars>>

\* with self.lock:
AcquireLock(t) ==
    /\ tpc[t] = "acquire"
    /\ lock = 0
    /\ lock' = t
    /\ tpc' = [tpc EXCEPT ![t] = "loop"]
    /\ UNCHANGED <<now, tokens, last_refill, wake, calls, grants, returns>>
    /\ UNCHANGED <<pc, pruneVars, dbVars, llmVars, pipeVars, restVars>>

\* one iteration of the loop that finds a token: read the clock, refill,
\* take the token and leave the with block
TakeToken(t) ==
    /\ tpc[t] = "loop"
    /\ Refill(tokens, now - last_refill) >= Scale
    /\ tokens' = Refill(tokens, now - last_refill) - Scale
    /\ last_refill' = now
    /\ grants' = Append(grants, now)
    /\ lock' = 0
    /\ tpc' = [tpc EXCEPT ![t] = "return"]
    /\ UNCHANGED <<now, wake, calls, returns>>
    /\ UNCHANGED <<pc, pruneVars, dbVars, llmVars, pipeVars, restVars>>

\* one iteration that finds no token: time.sleep(wait_time), lock held
Sleep(t) ==
    /\ tpc[t] = "loop"
    /\ Refill(tokens, now - last_refill) < Scale
    /\ tokens' = Refill(tokens, now - last_refill)
    /\ last_refill' = now
    /\ wake' = [wake EXCEPT ![t] = now + WaitTime(Refill(tokens, now - last_refill))]
    /\ tpc' = [tpc EXCEPT ![t] = "sleeping"]
    /\ UNCHANGED <<now, lock, calls, grants, returns>>
    /\ UNCHANGED <<pc, pruneVars, dbVars, llmVars, pipeVars, restVars>>

\* time.sleep returns, not before wait_time has passed
WakeUp(t) ==
    /\ tpc[t] = "sleeping"
    /\ now >= wake[t]
    /\ tpc' = [tpc EXCEPT ![t] = "loop"]
    /\ UNCHANGED <<now, tokens, last_refill, lock, wake, calls, grants, returns>>
    /\ UNCHANGED <<pc, pruneVars, dbVars, llmVars, pipeVars, restVars>>

\* consume() returns to its caller, whenever the thread is next scheduled
Return(t) ==
    /\ tpc[t] = "return"
    /\ returns' = Append(returns, now)
    /\ tpc' = [tpc EXCEPT ![t] = "idle"]
    /\ UNCHANGED <<now, tokens, last_refill, lock, wake, calls, grants>>
    /\ UNCHANGED <<pc, pruneVars, dbVars, llmVars, pipeVars, restVars>>

NextBucket ==
    \/ Tick
    \/ \E t \in Threads : CallConsume(t)
    \/ \E t \in Threads : AcquireLock(t)
    \/ \E t \in Threads : TakeToken(t)
    \/ \E t \in Threads : Return(t)
    \/ \E t \in Threads : Sleep(t)
    \/ \E t \in Threads : WakeUp(t)

SpecBucket == InitBucket /\ [][NextBucket]_vars

(***************************************************************************)
(* SpecBucketLive: the same threads with a clock that never stops.  The    *)
(* code reads the clock only to compare it with last_refill and, in        *)
(* time.sleep, with the end of the sleep, so from MaxTime on a tick moves  *)
(* those two back instead of moving the clock forward; last_refill stops   *)
(* at the distance after which a refill fills the bucket anyway, and the   *)
(* readings recorded in grants and returns, which belong to the clock      *)
(* before the tick, are dropped.                                           *)
(***************************************************************************)
\* the ticks after which a refill reaches the capacity from any level
FullAfter == (capacity * Scale + RefillPerTick - 1) \div RefillPerTick

TickOn ==
    /\ now = MaxTime
    /\ last_refill' = IF last_refill - 1 >= now - FullAfter THEN last_refill - 1
                                                            ELSE now - FullAfter
    /\ wake' = [t \in Threads |-> IF wake[t] > 0 THEN wake[t] - 1 ELSE 0]
    /\ grants' = <<>>
    /\ returns' = <<>>
    /\ UNCHANGED <<now, tokens, lock, tpc, calls>>
    /\ UNCHANGED <<pc, pruneVars, dbVars, llmVars, pipeVars, restVars>>

\* the bucket is full, as __init__ leaves it, or has been emptied by
\* earlier calls
InitBucketLive ==
    /\ pc = "bucket"
    /\ now = 0
    /\ tokens \in {0, capacity * Scale}
    /\ last_refill = 0
    /\ lock = 0
    /\ tpc = [t \in Threads |-> "idle"]
    /\ wake = [t \in Threads |-> 0]
    /\ calls = 0
    /\ grants = <<>>
    /\ returns = <<>>
    /\ PruneUnused
    /\ atom_id_map = <<>>
    /\ rels_out = <<>>
    /\ LLMUnused
    /\ PipeUnused
    /\ RestUnused

NextBucketLive ==
    \/ Tick
    \/ TickOn
    \/ \E t \in Threads : CallConsume(t)
    \/ \E t \in Threads : AcquireLock(t)
    \/ \E t \in Threads : TakeToken(t)
    \/ \E t \in Threads : Return(t)
    \/ \E t \in Threads : Sleep(t)
    \/ \E t \in Threads : WakeUp(t)

\* time passes; a thread that can take a step of consume() takes it; the
\* lock is fair: a thread that waits for a lock that is free again and
\* again gets it
FairBucket ==
    /\ WF_vars(Tick \/ TickOn)
    /\ \A t \in Threads :
        /\ WF_vars(TakeToken(t))
        /\ WF_vars(Sleep(t))
        /\ WF_vars(WakeUp(t))
        /\ WF_vars(Return(t))
        /\ SF_vars(AcquireLock(t))

SpecBucketLive == InitBucketLive /\ [][NextBucketLive]_vars /\ FairBucket

(***************************************************************************)
(* Claims about TokenBucketRateLimiter.                                    *)
(***************************************************************************)
\* at most B + R*T of the times in ts lie in any interval of length T (the
\* interval from the a-th to the b-th holds b - a + 1 of them and has
\* length ts[b] - ts[a] ticks)
WithinRate(ts) ==
    \A a, b \in 1..Len(ts) :
        a <= b =>
            (b - a + 1) * TicksPerSecond
                <= capacity * TicksPerSecond + rate * (ts[b] - ts[a])

TokensInRange == tokens >= 0 /\ tokens <= capacity * Scale

\* C10 as stated: the stored token count stays within [0, B], and in any
\* time interval of length T at most B + R*T calls of consume() return.
C10_ReturnsWithinRate == TokensInRange /\ WithinRate(returns)

\* C10, amended: the stored token count stays within [0, B], and in any
\* time interval of length T at most B + R*T calls of consume() take their
\* token, by the clock readings of the iterations that took it; the k-th
\* return comes no earlier than the k-th of these readings.
C10_GrantsWithinRate ==
    /\ TokensInRange
    /\ WithinRate(grants)
    /\ Len(returns) <= Len(grants)
    /\ \A k \in 1..Len(returns) : grants[k] <= returns[k]

\* more calls than the capacity have taken a token, one of them after a
\* sleep, and the calls of some interval exhaust the bound
C10_Witness ==
    /\ Len(grants) > capacity
    /\ Len(returns) > capacity
    /\ \E t \in Threads : wake[t] > 0 /\ tpc[t] = "idle"
    /\ \E a, b \in 1..Len(grants) :
        /\ a < b
        /\ b - a + 1 > capacity
        /\ (b - a + 1) * TicksPerSecond
              = capacity * TicksPerSecond + rate * (grants[b] - grants[a])

(***************************************************************************)
(* SpecSend: the threads of SpecBucket go on to the retry loop of          *)
(* _run_completion_request once consume() has returned.  Each request that *)
(* is sent is recorded with the clock reading at which it is sent.  A      *)
(* time.sleep(d) that starts at reading t ends at a reading of at least    *)
(* t + d rounded down to whole ticks, and at any later one.                *)
(***************************************************************************)
\* LLMClient.__init__: retries: int = 3
default_retries == 3

\* self.backoff_factor * (2 ** i), in whole ticks
BackoffTicks(i) == (backoff_factor_ms * Pow2(i) * TicksPerSecond) \div 1000

InitSend ==
    /\ pc = "send"
    /\ now = 0
    /\ tokens = capacity * Scale
    /\ last_refill = 0
    /\ lock = 0
    /\ tpc = [t \in Threads |-> "idle"]
    /\ wake = [t \in Threads |-> 0]
    /\ calls = 0
    /\ grants = <<>>
    /\ returns = <<>>
    /\ sent = <<>>
    /\ req = [t \in Threads |-> [i |-> 0, until |-> 0]]
    /\ SendOthersUnused
    /\ CtxUnused
    /\ PoolUnused
    /\ TextUnused
    /\ ParseUnused
    /\ PruneUnused
    /\ atom_id_map = <<>>
    /\ rels_out = <<>>
    /\ LLMUnused
    /\ PipeUnused

sendRest == <<pc, now, tokens, last_refill, lock, wake, calls, grants,
              pruneVars, dbVars, llmVars, pipeVars,
              ctxVars, poolVars, textVars, parseVars, sendOthers>>

\* consume() has returned and the loop is at an iteration it may run: the
\* first one, or a later one after the sleep of the one before it
MayAttempt(t) ==
    /\ tpc[t] = "return"
    /\ req[t].i < default_retries
    /\ now >= req[t].until

\* the returns of consume(): it returns once, before the first iteration
AfterAttempt(t) == IF req[t].i = 0 THEN Append(returns, now) ELSE returns

\* an iteration whose request is answered with a text that parses:
\* return json.loads(response_text)
AttemptSucceeds(t) ==
    /\ MayAttempt(t)
    /\ sent' = Append(sent, now)
    /\ returns' = AfterAttempt(t)
    /\ req' = [req EXCEPT ![t] = [i |-> 0, until |-> 0]]
    /\ tpc' = [tpc EXCEPT ![t] = "idle"]
    /\ UNCHANGED sendRest

\* an iteration whose request fails: the except clause, then
\* time.sleep(self.backoff_factor * (2 ** i)) unless it was the last
\* iteration, after which the call returns None
AttemptFails(t) ==
    /\ MayAttempt(t)
    /\ sent' = Append(sent, now)
    /\ returns' = AfterAttempt(t)
    /\ IF req[t].i < default_retries - 1
       THEN /\ req' = [req EXCEPT ![t] = [i |-> req[t].i + 1,
                                          until |-> now + BackoffTicks(req[t].i)]]
            /\ tpc' = tpc
       ELSE /\ req' = [req EXCEPT ![t] = [i |-> 0, until |-> 0]]
            /\ tpc' = [tpc EXCEPT ![t] = "idle"]
    /\ UNCHANGED sendRest

NextSend ==
    \/ Tick
    \/ \E t \in Threads : CallConsume(t)
    \/ \E t \in Threads : AcquireLock(t)
    \/ \E t \in Threads : TakeToken(t)
    \/ \E t \in Threads : Sleep(t)
    \/ \E t \in Threads : WakeUp(t)
    \/ \E t \in Threads : AttemptSucceeds(t)
    \/ \E t \in Threads : AttemptFails(t)

SpecSend == InitSend /\ [][NextSend]_vars

\* C29: in any interval of length T at most B + R*T requests are sent to
\* the provider, first attempts and retries together.
C29_SentWithinRate == WithinRate(sent)

(***************************************************************************)
(* SpecContext: the loops of _process_chapter and _process_subsection over *)
(* every bounded document, with the context each process_atom call gets.   *)
(* A paragraph is [id, atoms] with atoms the number of its atoms.           *)
(***************************************************************************)
MaxParas == 3      \* SpecContext: chapter-level paragraphs of the first chapter
MaxSubParas == 2   \* SpecContext: paragraphs of a subsection
MaxAtoms == 2      \* SpecContext: atoms of a paragraph

NoSection == -1

\* the paragraphs of a block, ids in order of appearance
ParagraphsOf(shape) == [k \in 1..Len(shape) |-> [id |-> k, atoms |-> shape[k]]]

\* an id that leaves the subsection out
atom_id_NoSection(chapter_idx, section_id, paragraph_id, atom_idx) ==
    "chap" \o ToString(chapter_idx)
        \o "_par" \o ToString(paragraph_id) \o "_atom" \o ToString(atom_idx + 1)

\* f"chap{chapter_idx}_par{paragraph['id']}_atom{atom_idx+1}", or with
\* _sec{subsection_data['id']}; atom_idx is 0-based
atom_id(chapter_idx, section_id, paragraph_id, atom_idx) ==
    "chap" \o ToString(chapter_idx)
        \o (IF section_id = NoSection THEN "" ELSE "_sec" \o ToString(section_id))
        \o "_par" \o ToString(paragraph_id) \o "_atom" \o ToString(atom_idx + 1)

\* the sequences of document d: <<c, 0>> the chapter level of the c-th
\* chapter, <<c, k>> its k-th subsection unless titled Notes
CtxUnits(d) ==
    {<<c, 0>> : c \in 1..Len(d)} \cup
    UNION {{<<c, k>> : k \in {x \in 1..Len(d[c].subsections) :
                                d[c].subsections[x].title # "Notes"}} : c \in 1..Len(d)}

CtxParagraphs(d, u) ==
    IF u[2] = 0 THEN d[u[1]].paragraphs ELSE d[u[1]].subsections[u[2]].paragraphs

CtxSectionId(d, u) == IF u[2] = 0 THEN NoSection ELSE d[u[1]].subsections[u[2]].id

\* [{"id": f"...atom{idx+1}", ...} for idx in range(n)]
AtomIdsUpTo(d, u, paragraph, n) ==
    [k \in 1..n |-> atom_id(u[1] - 1, CtxSectionId(d, u), paragraph.id, k - 1)]

\* a context that keeps every earlier paragraph of the sequence
PrevAfterParagraph_Accumulates(prev, ids) == prev \o ids

\* prev_paragraph_atoms = [... for idx, atom in enumerate(atoms)]
PrevAfterParagraph(prev, ids) == ids

CtxDocuments ==
    {<< [title |-> "Chapter 1", paragraphs |-> ParagraphsOf(lvl),
         subsections |-> << [id |-> 1, title |-> "Part A", paragraphs |-> ParagraphsOf(s1)],
                            [id |-> 2, title |-> "Part B", paragraphs |-> ParagraphsOf(s2)] >>],
        [title |-> "Chapter 2", paragraphs |-> ParagraphsOf(lvl2),
         subsections |-> << [id |-> 1, title |-> "Notes",
                             paragraphs |-> ParagraphsOf(<<1>>)] >>] >> :
        lvl \in SeqsUpTo(0..MaxAtoms, MaxParas),
        s1 \in SeqsUpTo(1..MaxAtoms, MaxSubParas),
        s2 \in {<<1>>, <<MaxAtoms, 1>>},
        lvl2 \in {<<>>, <<1, MaxAtoms>>}}

InitContext ==
    /\ pc = "context"
    /\ ctx_doc \in CtxDocuments
    /\ ctx_pos = [u \in CtxUnits(ctx_doc) |->
                    [paragraph |-> 1, atom_idx |-> 0, prev_paragraph_atoms |-> <<>>]]
    /\ ctx_calls = [u \in CtxUnits(ctx_doc) |-> <<>>]
    /\ PoolUnused
    /\ TextUnused
    /\ ParseUnused
    /\ LateUnused
    /\ PruneUnused
    /\ atom_id_map = <<>>
    /\ rels_out = <<>>
    /\ LLMUnused
    /\ PipeUnused
    /\ BucketUnused

CtxDone(u) == ctx_pos[u].paragraph > Len(CtxParagraphs(ctx_doc, u))

\* the subsections of a chapter start after its chapter-level paragraphs
CtxMayRun(u) ==
    /\ u \in CtxUnits(ctx_doc)
    /\ ~CtxDone(u)
    /\ u[2] # 0 => CtxDone(<<u[1], 0>>)

\* target_component and context, as the inner loop builds them for the
\* atom the sequence u is at
ProcessAtomArguments(u) ==
    LET paragraph == CtxParagraphs(ctx_doc, u)[ctx_pos[u].paragraph]
        atom_idx == ctx_pos[u].atom_idx
    IN  [target |-> atom_id(u[1] - 1, CtxSectionId(ctx_doc, u), paragraph.id, atom_idx),
         context |-> ctx_pos[u].prev_paragraph_atoms
                        \o AtomIdsUpTo(ctx_doc, u, paragraph, atom_idx)]

\* the body of the inner loop: build the context and call process_atom
CallProcessAtom(u) ==
    /\ CtxMayRun(u)
    /\ LET paragraph == CtxParagraphs(ctx_doc, u)[ctx_pos[u].paragraph]
           atom_idx == ctx_pos[u].atom_idx
       IN  /\ atom_idx < paragraph.atoms
           /\ ctx_calls' = [ctx_calls EXCEPT ![u] = Append(@, ProcessAtomArguments(u))]
           /\ ctx_pos' = [ctx_pos EXCEPT ![u].atom_idx = atom_idx + 1]
    /\ UNCHANGED <<ctx_doc, poolVars, textVars, parseVars, lateVars>>
    /\ UNCHANGED <<pc, pruneVars, dbVars, llmVars, pipeVars, bucketVars>>

\* the end of the outer loop's body: update prev_paragraph_atoms
EndParagraph(u) ==
    /\ CtxMayRun(u)
    /\ LET paragraph == CtxParagraphs(ctx_doc, u)[ctx_pos[u].paragraph]
       IN  /\ ctx_pos[u].atom_idx = paragraph.atoms
           /\ ctx_pos' = [ctx_pos EXCEPT ![u] =
                [paragraph |-> @.paragraph + 1, atom_idx |-> 0,
                 prev_paragraph_atoms |->
                    PrevAfterParagraph(@.prev_paragraph_atoms,
                        AtomIdsUpTo(ctx_doc, u, paragraph, paragraph.atoms))]]
    /\ UNCHANGED <<ctx_doc, ctx_calls, poolVars, textVars, parseVars, lateVars>>
    /\ UNCHANGED <<pc, pruneVars, dbVars, llmVars, pipeVars, bucketVars>>

\* every <<chapter, sequence>> a document of CtxDocuments can have
CtxUnitIndices == {<<c, k>> : c \in 1..2, k \in 0..2}

NextContext ==
    \/ \E u \in CtxUnitIndices : CallProcessAtom(u)
    \/ \E u \in CtxUnitIndices : EndParagraph(u)

SpecContext == InitContext /\ [][NextContext]_vars

(***************************************************************************)
(* Claims about the context and the atom ids.                              *)
(***************************************************************************)
RECURSIVE ReadingOrder(_, _, _)
\* the atoms of the paragraphs paras[p..] as <<index of paragraph, position>>
ReadingOrder(paras, p, n) ==
    IF p > Len(paras) THEN <<>>
    ELSE IF n > paras[p].atoms THEN ReadingOrder(paras, p + 1, 1)
    ELSE <<[p |-> p, n |-> n]>> \o ReadingOrder(paras, p, n + 1)

C12_IdOf(u, p, n) ==
    atom_id(u[1] - 1, CtxSectionId(ctx_doc, u), CtxParagraphs(ctx_doc, u)[p].id, n - 1)

\* what the context of the n-th atom of the p-th paragraph of u has to be
C12_Expected(u, p, n) ==
    (IF p = 1 THEN <<>>
     ELSE [k \in 1..CtxParagraphs(ctx_doc, u)[p - 1].atoms |-> C12_IdOf(u, p - 1, k)])
    \o [k \in 1..(n - 1) |-> C12_IdOf(u, p, k)]

\* C12: the k-th call of a sequence has the k-th atom of the sequence in
\* reading order as its target, and its context is the atoms of the
\* paragraph just before the target's in the same sequence, in order, then
\* the atoms of the target's paragraph before the target, in order; so it
\* holds neither the target nor an atom of another sequence.
C12_LocalContext ==
    \A u \in CtxUnits(ctx_doc) :
        LET order == ReadingOrder(CtxParagraphs(ctx_doc, u), 1, 1)
        IN  /\ Len(ctx_calls[u]) <= Len(order)
            /\ CtxDone(u) => Len(ctx_calls[u]) = Len(order)
            /\ \A k \in 1..Len(ctx_calls[u]) :
                /\ ctx_calls[u][k].target = C12_IdOf(u, order[k].p, order[k].n)
                /\ ctx_calls[u][k].context = C12_Expected(u, order[k].p, order[k].n)
                /\ ctx_calls[u][k].target \notin Range(ctx_calls[u][k].context)
                /\ \A v \in CtxUnits(ctx_doc) \ {u} :
                    \A j \in 1..Len(ctx_calls[v]) :
                        ctx_calls[v][j].target \notin Range(ctx_calls[u][k].context)

\* the chapter level of the first chapter has three paragraphs with atoms,
\* and the second atom of the third has been processed while another
\* sequence has made calls too
C12_Witness ==
    /\ Len(ctx_doc[1].paragraphs) = 3
    /\ \A k \in 1..3 : ctx_doc[1].paragraphs[k].atoms = 2
    /\ Len(ctx_calls[<<1, 0>>]) = 6
    /\ Len(ctx_calls[<<1, 0>>][6].context) = 3
    /\ Len(ctx_calls[<<1, 2>>]) >= 2

\* the calls made so far, as <<sequence, position in the sequence>>
CallsMade == {<<u, k>> \in CtxUnitIndices \X (1..(MaxParas * (MaxAtoms + 1))) :
                u \in CtxUnits(ctx_doc) /\ k <= Len(ctx_calls[u])}

\* C14: the ids given to the atoms of one document are pairwise distinct;
\* the id of the N-th atom of the paragraph with id P is chap{C}_par{P}_atom{N}
\* at chapter level and chap{C}_sec{S}_par{P}_atom{N} in the subsection with
\* id S, with C the 0-based index of the chapter.
C14_DistinctWellFormedIds ==
    /\ \A x, y \in CallsMade :
        x # y => ctx_calls[x[1]][x[2]].target # ctx_calls[y[1]][y[2]].target
    /\ \A x \in CallsMade :
        LET u == x[1]
            at == ReadingOrder(CtxParagraphs(ctx_doc, u), 1, 1)[x[2]]
            P == CtxParagraphs(ctx_doc, u)[at.p].id
        IN  ctx_calls[u][x[2]].target =
                IF u[2] = 0
                THEN "chap" \o ToString(u[1] - 1) \o "_par" \o ToString(P)
                        \o "_atom" \o ToString(at.n)
                ELSE "chap" \o ToString(u[1] - 1) \o "_sec"
                        \o ToString(ctx_doc[u[1]].subsections[u[2]].id)
                        \o "_par" \o ToString(P) \o "_atom" \o ToString(at.n)

\* every sequence is done; both chapters and both subsections of the first
\* chapter have given an id to a first atom of a paragraph with id 1
C14_Witness ==
    /\ \A u \in CtxUnits(ctx_doc) : CtxDone(u)
    /\ \A u \in {<<1, 0>>, <<1, 1>>, <<1, 2>>, <<2, 0>>} :
        /\ ctx_calls[u] # <<>>
        /\ CtxParagraphs(ctx_doc, u)[1].atoms >= 1
    /\ Cardinality(CallsMade) >= 8

(***************************************************************************)
(* SpecPool: the two levels of ThreadPoolExecutor of build_graph.  A task  *)
(* is queued when submitted, taken by a free worker thread of its pool in  *)
(* submission order, and frees the thread when it returns.                 *)
(***************************************************************************)
PoolChapters == 5      \* SpecPool: chapters of the document
PoolSubsections == 5   \* SpecPool: subsections to process of a chapter that has any
PoolHeavy == 2         \* SpecPool: chapters that have subsections

\* a pool that starts a thread for every task
max_workers_Unbounded(tasks, cap) == tasks

\* max_workers=min(len(chapter_args), 4), min(len(subsections_to_process), 4)
max_workers(tasks, cap) == Min(tasks, cap)

PoolChapterIds == 1..PoolChapters
PoolTaskIds == PoolChapterIds \X (1..PoolSubsections)

InitPool ==
    /\ pc = "pool"
    /\ \E h \in 0..PoolHeavy :
        pool_doc = [c \in PoolChapterIds |-> IF c <= h THEN PoolSubsections ELSE 0]
    /\ pool_ch = [c \in PoolChapterIds |-> "queued"]
    /\ pool_sub = [x \in PoolTaskIds |-> "none"]
    /\ CtxUnused
    /\ TextUnused
    /\ ParseUnused
    /\ LateUnused
    /\ PruneUnused
    /\ atom_id_map = <<>>
    /\ rels_out = <<>>
    /\ LLMUnused
    /\ PipeUnused
    /\ BucketUnused

ExecutingChapters == {c \in PoolChapterIds : pool_ch[c] \in {"level", "subsections"}}
ExecutingSubsections(c) == {k \in 1..PoolSubsections : pool_sub[<<c, k>>] = "running"}

poolRest == <<pc, pruneVars, dbVars, llmVars, pipeVars, bucketVars, ctxVars, textVars, parseVars, lateVars>>

\* a thread of the chapter pool takes _process_chapter(c) from the queue
\* and starts on the chapter-level paragraphs
TakeChapter(c) ==
    /\ pool_ch[c] = "queued"
    /\ \A d \in PoolChapterIds : d < c => pool_ch[d] # "queued"
    /\ Cardinality(ExecutingChapters) < max_workers(PoolChapters, max_chapter_workers)
    /\ pool_ch' = [pool_ch EXCEPT ![c] = "level"]
    /\ UNCHANGED <<pool_doc, pool_sub, poolRest>>

\* the chapter-level loop is over: submit the subsections and wait
SubmitSubsections(c) ==
    /\ pool_ch[c] = "level"
    /\ pool_ch' = [pool_ch EXCEPT ![c] = "subsections"]
    /\ pool_sub' = [x \in PoolTaskIds |->
                        IF x[1] = c /\ x[2] <= pool_doc[c] THEN "queued" ELSE pool_sub[x]]
    /\ UNCHANGED <<pool_doc, poolRest>>

\* a thread of the chapter's pool takes _process_subsection from the queue
TakeSubsection(c, k) ==
    /\ pool_sub[<<c, k>>] = "queued"
    /\ \A j \in 1..(k - 1) : pool_sub[<<c, j>>] # "queued"
    /\ Cardinality(ExecutingSubsections(c)) < max_workers(pool_doc[c], max_subsection_workers)
    /\ pool_sub' = [pool_sub EXCEPT ![<<c, k>>] = "running"]
    /\ UNCHANGED <<pool_doc, pool_ch, poolRest>>

\* _process_subsection returns
SubsectionReturns(c, k) ==
    /\ pool_sub[<<c, k>>] = "running"
    /\ pool_sub' = [pool_sub EXCEPT ![<<c, k>>] = "done"]
    /\ UNCHANGED <<pool_doc, pool_ch, poolRest>>

\* every future.result() has returned: _process_chapter returns
ChapterReturns(c) ==
    /\ pool_ch[c] = "subsections"
    /\ \A k \in 1..pool_doc[c] : pool_sub[<<c, k>>] = "done"
    /\ pool_ch' = [pool_ch EXCEPT ![c] = "done"]
    /\ UNCHANGED <<pool_doc, pool_sub, poolRest>>

NextPool ==
    \/ \E c \in PoolChapterIds : TakeChapter(c)
    \/ \E c \in PoolChapterIds : SubmitSubsections(c)
    \/ \E x \in PoolTaskIds : TakeSubsection(x[1], x[2])
    \/ \E x \in PoolTaskIds : SubsectionReturns(x[1], x[2])
    \/ \E c \in PoolChapterIds : ChapterReturns(c)

SpecPool == InitPool /\ [][NextPool]_vars

\* the sequences that can be inside process_atom: a chapter on its
\* chapter-level paragraphs, and every running subsection
InFlight ==
    Cardinality({c \in PoolChapterIds : pool_ch[c] = "level"})
        + Cardinality({x \in PoolTaskIds : pool_sub[x] = "running"})

\* C13: at most min(num_chapters, 4) chapter workers execute
\* _process_chapter, for each chapter at most min(num_subsections, 4) of its
\* subsection workers execute, and at most 16 process_atom calls are in
\* flight.
C13_PoolBounds ==
    /\ Cardinality(ExecutingChapters) <= Min(PoolChapters, 4)
    /\ \A c \in PoolChapterIds :
        /\ Cardinality(ExecutingSubsections(c)) <= Min(pool_doc[c], 4)
        /\ pool_ch[c] # "subsections" => ExecutingSubsections(c) = {}
    /\ InFlight <= 16

\* four chapters execute while the fifth waits, and in one of them four
\* subsections execute while the fifth waits
C13_Witness ==
    /\ Cardinality(ExecutingChapters) = 4
    /\ \E c \in PoolChapterIds : pool_ch[c] = "queued"
    /\ \E c \in PoolChapterIds :
        /\ Cardinality(ExecutingSubsections(c)) = 4
        /\ \E k \in 1..PoolSubsections : pool_sub[<<c, k>>] = "queued"

(***************************************************************************)
(* Parser._preprocess_note_references.  A text is a sequence of            *)
(* characters; offsets are Python's: 0-based, end exclusive.               *)
(***************************************************************************)
Whitespace == {" ", "\n"}
Digits == {"0", "1", "2", "3", "4", "5", "6", "7", "8", "9"}

\* text[a:b]
Slice(t, a, b) == SubSeq(t, a + 1, b)

\* text[a:b].strip() is not empty
HasText(t, a, b) == \E k \in (a + 1)..b : t[k] \notin Whitespace

CharAt(t, k) == IF k >= 1 /\ k <= Len(t) THEN t[k] ELSE ""

RECURSIVE SkipWhile(_, _, _)
\* the first position from k on whose character is not in S
SkipWhile(t, k, S) == IF CharAt(t, k) \in S THEN SkipWhile(t, k + 1, S) ELSE k

RECURSIVE DigitList(_, _)
\* \d+(?:,\d+)* from position k: the position after it, or 0
DigitList(t, k) ==
    LET e == SkipWhile(t, k, Digits)
    IN  IF e = k THEN 0
        ELSE IF CharAt(t, e) = "," /\ DigitList(t, e + 1) # 0 THEN DigitList(t, e + 1)
        ELSE e

\* reference_pattern \$\{\s*\}\^\{(\d+(?:,\d+)*)\}\$ matched at position k:
\* the position after the match, or 0
MatchAt(t, k) ==
    IF CharAt(t, k) # "$" \/ CharAt(t, k + 1) # "{" THEN 0
    ELSE LET a == SkipWhile(t, k + 2, Whitespace)
         IN  IF CharAt(t, a) # "}" \/ CharAt(t, a + 1) # "^" \/ CharAt(t, a + 2) # "{" THEN 0
             ELSE LET d == DigitList(t, a + 3)
                  IN  IF d = 0 \/ CharAt(t, d) # "}" \/ CharAt(t, d + 1) # "$" THEN 0
                      ELSE d + 2

RECURSIVE FindIter(_, _)
\* reference_pattern.finditer(text): the matches from left to right, each
\* [start, end] with Python's offsets
FindIter(t, k) ==
    IF k > Len(t) THEN <<>>
    ELSE IF MatchAt(t, k) # 0
         THEN <<[start |-> k - 1, end |-> MatchAt(t, k) - 1]>> \o FindIter(t, MatchAt(t, k))
         ELSE FindIter(t, k + 1)

\* processed_text.rfind('\n', 0, start_pos) + 1
LineStart(t, start_pos) ==
    IF \E k \in 1..start_pos : t[k] = "\n"
    THEN CHOOSE k \in 1..start_pos :
            t[k] = "\n" /\ \A x \in (k + 1)..start_pos : t[x] # "\n"
    ELSE 0

\* processed_text.find('\n', end_pos), or len(processed_text)
LineEnd(t, end_pos) ==
    IF \E k \in (end_pos + 1)..Len(t) : t[k] = "\n"
    THEN (CHOOSE k \in (end_pos + 1)..Len(t) :
            t[k] = "\n" /\ \A x \in (end_pos + 1)..(k - 1) : t[x] # "\n") - 1
    ELSE Len(t)

\* if end_pos < len(processed_text) and processed_text[end_pos] != '\n':
\* processed_text[:start_pos] + note_ref + "\n" + processed_text[end_pos:]
AfterMarker(t, start_pos, end_pos, note_ref) ==
    IF end_pos < Len(t) /\ t[end_pos + 1] # "\n"
    THEN Slice(t, 0, start_pos) \o note_ref \o <<"\n">> \o Slice(t, end_pos, Len(t))
    ELSE t

\* if start_pos > 0 and processed_text[start_pos-1] != '\n':
\* processed_text[:start_pos] + "\n" + note_ref + processed_text[end_pos:]
BeforeMarker(t, start_pos, end_pos, note_ref) ==
    IF start_pos > 0 /\ t[start_pos] # "\n"
    THEN Slice(t, 0, start_pos) \o <<"\n">> \o note_ref \o Slice(t, end_pos, Len(t))
    ELSE t

\* the body of the loop for one match
ProcessMatch(t, m) ==
    LET note_ref == Slice(t, m.start, m.end)
    IN  IF HasText(t, LineStart(t, m.start), m.start) \/ HasText(t, m.end, LineEnd(t, m.end))
        THEN Slice(t, 0, m.start) \o <<"\n", "\n">> \o note_ref \o <<"\n", "\n">>
                \o Slice(t, m.end, Len(t))
        ELSE AfterMarker(BeforeMarker(t, m.start, m.end, note_ref),
                         m.start, m.end, note_ref)

RECURSIVE ProcessReversed(_, _, _)
\* for match in reversed(matches)
ProcessReversed(t, matches, k) ==
    IF k = 0 THEN t ELSE ProcessReversed(ProcessMatch(t, matches[k]), matches, k - 1)

preprocess_note_references(t) ==
    ProcessReversed(t, FindIter(t, 1), Len(FindIter(t, 1)))

(***************************************************************************)
(* SpecNotes: the normalization applied twice to every text of up to       *)
(* MaxSegments segments, a segment being a marker, a letter, a space or a  *)
(* newline.                                                                *)
(***************************************************************************)
MaxSegments == 4

Marker == <<"$", "{", " ", "}", "^", "{", "1", "}", "$">>
Segments == {Marker, <<"a">>, <<" ">>, <<"\n">>}

RECURSIVE Concat(_)
Concat(segs) == IF segs = <<>> THEN <<>> ELSE Head(segs) \o Concat(Tail(segs))

InitNotes ==
    /\ pc = "notes"
    /\ \E segs \in SeqsUpTo(Segments, MaxSegments) : text = Concat(segs)
    /\ processed_text = <<>>
    /\ processed_again = <<>>
    /\ CtxUnused
    /\ PoolUnused
    /\ ParseUnused
    /\ LateUnused
    /\ PruneUnused
    /\ atom_id_map = <<>>
    /\ rels_out = <<>>
    /\ LLMUnused
    /\ PipeUnused
    /\ BucketUnused

notesRest == <<pruneVars, dbVars, llmVars, pipeVars, bucketVars, ctxVars, poolVars, parseVars, lateVars>>

\* Parser.__init__: self.text = self._preprocess_note_references(text)
Preprocess ==
    /\ pc = "notes"
    /\ processed_text' = preprocess_note_references(text)
    /\ pc' = "normalized"
    /\ UNCHANGED <<text, processed_again, notesRest>>

\* a Parser made from the normalized text
PreprocessAgain ==
    /\ pc = "normalized"
    /\ processed_again' = preprocess_note_references(processed_text)
    /\ pc' = "normalized_twice"
    /\ UNCHANGED <<text, processed_text, notesRest>>

NextNotes == Preprocess \/ PreprocessAgain

SpecNotes == InitNotes /\ [][NextNotes]_vars

\* C20: normalizing a normalized text returns it unchanged.
C20_NormalizationIdempotent ==
    pc = "normalized_twice" => processed_again = processed_text

(***************************************************************************)
(* Parser.find_paragraphs_in_block and Parser.decompose_paragraph, on      *)
(* texts of letters, full stops, spaces and newlines: none of the header,  *)
(* list, note or citation patterns of the two methods matches such a text, *)
(* and no sentence has a colon.                                            *)
(***************************************************************************)
lstrip(t) == SubSeq(t, SkipWhile(t, 1, Whitespace), Len(t))

RECURSIVE rstrip(_)
rstrip(t) ==
    IF t # <<>> /\ t[Len(t)] \in Whitespace THEN rstrip(SubSeq(t, 1, Len(t) - 1)) ELSE t

strip(t) == rstrip(lstrip(t))

\* the placeholder of _remove_extraneous_newlines, one symbol of the text
placeholder == "<<<PARAGRAPH_BREAK>>>"

RECURSIVE ReplaceBreaks(_, _)
\* re.sub(r'\n\n+', placeholder, text), from position k on
ReplaceBreaks(t, k) ==
    IF k > Len(t) THEN <<>>
    ELSE IF t[k] = "\n" /\ CharAt(t, k + 1) = "\n"
         THEN <<placeholder>> \o ReplaceBreaks(t, SkipWhile(t, k, {"\n"}))
         ELSE <<t[k]>> \o ReplaceBreaks(t, k + 1)

RECURSIVE SplitLines(_)
\* text.split('\n')
SplitLines(t) ==
    IF \E k \in 1..Len(t) : t[k] = "\n"
    THEN LET k == CHOOSE x \in 1..Len(t) : t[x] = "\n" /\ \A y \in 1..(x - 1) : t[y] # "\n"
         IN  <<SubSeq(t, 1, k - 1)>> \o SplitLines(SubSeq(t, k + 1, Len(t)))
    ELSE <<t>>

\* re.match(r'^\s*#+\s', line)
IsHeading(line) ==
    /\ SkipWhile(lstrip(line), 1, {"#"}) > 1
    /\ CharAt(lstrip(line), SkipWhile(lstrip(line), 1, {"#"})) \in Whitespace

\* the condition of the join for two stripped lines of a text of letters
\* "a", full stops, "#", spaces and newlines: the next line is not empty,
\* the current one does not end a sentence and neither is a heading; the
\* other patterns of the condition match no line of such a text
should_join(current_line, next_line) ==
    /\ next_line # <<>>
    /\ current_line[Len(current_line)] \notin {".", "!", "?"}
    /\ ~IsHeading(current_line)
    /\ ~IsHeading(next_line)

RECURSIVE ProcessLines(_, _)
\* the while loop over the lines, from line i on
ProcessLines(lines, i) ==
    IF i > Len(lines) THEN <<>>
    ELSE IF strip(lines[i]) = <<>> THEN <<lines[i]>> \o ProcessLines(lines, i + 1)
    ELSE IF i + 1 <= Len(lines) /\ should_join(strip(lines[i]), strip(lines[i + 1]))
         THEN <<rstrip(lines[i]) \o <<" ">> \o lstrip(lines[i + 1])>>
                \o ProcessLines(lines, i + 2)
         ELSE <<lines[i]>> \o ProcessLines(lines, i + 1)

RECURSIVE JoinLines(_)
\* '\n'.join(processed_lines)
JoinLines(lines) ==
    IF Len(lines) = 0 THEN <<>>
    ELSE IF Len(lines) = 1 THEN lines[1]
    ELSE lines[1] \o <<"\n">> \o JoinLines(Tail(lines))

RECURSIVE RestoreBreaks(_)
\* result.replace(placeholder, '\n\n')
RestoreBreaks(t) ==
    IF t = <<>> THEN <<>>
    ELSE (IF Head(t) = placeholder THEN <<"\n", "\n">> ELSE <<Head(t)>>)
            \o RestoreBreaks(Tail(t))

remove_extraneous_newlines(t) ==
    IF t = <<>> THEN t
    ELSE RestoreBreaks(JoinLines(ProcessLines(SplitLines(ReplaceBreaks(t, 1)), 1)))

RECURSIVE paragraph_breaks(_, _)
\* re.finditer(r'\n\n+', content_text), from position k on
paragraph_breaks(t, k) ==
    IF k > Len(t) THEN <<>>
    ELSE IF t[k] = "\n" /\ CharAt(t, k + 1) = "\n"
         THEN <<[start |-> k - 1, end |-> SkipWhile(t, k, {"\n"}) - 1]>>
                \o paragraph_breaks(t, SkipWhile(t, k, {"\n"}))
         ELSE paragraph_breaks(t, k + 1)

\* t.find(sub, from), -1 when sub does not occur
Find(t, sub, from) ==
    IF \E k \in from..(Len(t) - Len(sub)) : Slice(t, k, k + Len(sub)) = sub
    THEN CHOOSE k \in from..(Len(t) - Len(sub)) :
            /\ Slice(t, k, k + Len(sub)) = sub
            /\ \A x \in from..(k - 1) : Slice(t, x, x + Len(sub)) # sub
    ELSE -1

RECURSIVE SplitSentences(_, _, _)
\* the sentences of a tokenizer that ends a sentence at every full stop
\* followed by whitespace: from is where the current sentence starts
SplitSentences(t, from, k) ==
    IF k > Len(t) THEN (IF from <= Len(t) THEN <<SubSeq(t, from, Len(t))>> ELSE <<>>)
    ELSE IF t[k] = "." /\ CharAt(t, k + 1) \in Whitespace
         THEN <<SubSeq(t, from, k)>>
                \o SplitSentences(t, SkipWhile(t, k + 1, Whitespace),
                                  SkipWhile(t, k + 1, Whitespace))
         ELSE SplitSentences(t, from, k + 1)

\* nltk.sent_tokenize(part): either it finds no boundary, or it ends a
\* sentence at every full stop followed by whitespace
sent_tokenize(part, splits) == IF splits THEN SplitSentences(part, 1, 1) ELSE <<part>>

\* an atom of decompose_paragraph
Atom(text_, start, type) ==
    [text |-> text_, start_offset |-> start, end_offset |-> start + Len(text_), type |-> type]

RECURSIVE colon_index(_, _, _)
\* the loop over enumerate(sentence), from character i on: the index of the
\* colon it breaks at, or -1
colon_index(sentence, i, paren_level) ==
    IF i > Len(sentence) THEN -1
    ELSE IF sentence[i] = "(" THEN colon_index(sentence, i + 1, paren_level + 1)
    ELSE IF sentence[i] = ")"
         THEN colon_index(sentence, i + 1, IF paren_level > 0 THEN paren_level - 1 ELSE 0)
    ELSE IF sentence[i] = ":" /\ paren_level = 0 THEN i - 1
    ELSE colon_index(sentence, i + 1, paren_level)

first_colon_AnyDepth(sentence) == Find(sentence, <<":">>, 0)

\* colon_index after the loop
first_colon(sentence) == colon_index(sentence, 1, 0)

RECURSIVE SubPartAtoms(_, _, _, _, _)
\* the loop over sub_parts; start is where the sentence starts in the text
SubPartAtoms(sentence, sub_parts, k, sub_offset, start) ==
    IF k > Len(sub_parts) THEN <<>>
    ELSE IF sub_parts[k] = <<>> THEN SubPartAtoms(sentence, sub_parts, k + 1, sub_offset, start)
    ELSE LET found == Find(sentence, sub_parts[k], sub_offset)
             sub_start == IF found = -1 THEN sub_offset ELSE found
         IN  <<Atom(sub_parts[k], start + sub_start, "sentence")>>
             \o SubPartAtoms(sentence, sub_parts, k + 1, sub_start + Len(sub_parts[k]), start)

\* the atoms of one stripped sentence that starts at start
OneSentenceAtoms(sentence, start) ==
    IF \A i \in 1..Len(sentence) : sentence[i] # ":"
    THEN <<Atom(sentence, start, "sentence")>>
    ELSE IF first_colon(sentence) # -1
         THEN SubPartAtoms(sentence,
                           <<strip(Slice(sentence, 0, first_colon(sentence))),
                             strip(Slice(sentence, first_colon(sentence) + 1,
                                         Len(sentence)))>>,
                           1, 0, start)
         ELSE <<Atom(sentence, start, "sentence")>>

RECURSIVE SentenceAtoms(_, _, _, _, _)
\* the loop over the sentences of a part; part_offset is
\* paragraph_start_offset + part_start
SentenceAtoms(part, sentences, k, sentence_offset, part_offset) ==
    IF k > Len(sentences) THEN <<>>
    ELSE IF strip(sentences[k]) = <<>>
         THEN SentenceAtoms(part, sentences, k + 1, sentence_offset, part_offset)
         ELSE LET sentence == strip(sentences[k])
                  found == Find(part, sentence, sentence_offset)
                  sentence_start == IF found = -1 THEN sentence_offset ELSE found
              IN  OneSentenceAtoms(sentence, part_offset + sentence_start)
                  \o SentenceAtoms(part, sentences, k + 1, sentence_start + Len(sentence),
                                   part_offset)

\* \([^)]+\d{4}[^)]*\) matched at position k: the position after the match,
\* or 0. No part of it but the last matches ")", so the match ends at the
\* first ")" after k.
ParenCitation(t, k) ==
    IF CharAt(t, k) # "(" \/ \A e \in (k + 1)..Len(t) : t[e] # ")" THEN 0
    ELSE LET e == CHOOSE x \in (k + 1)..Len(t) :
                        t[x] = ")" /\ \A y \in (k + 1)..(x - 1) : t[y] # ")"
         IN  IF \E j \in (k + 2)..(e - 4) : \A d \in 0..3 : t[j + d] \in Digits
             THEN e + 1 ELSE 0

\* \[\^?\d+\] matched at position k: the position after the match, or 0
BracketCitation(t, k) ==
    IF CharAt(t, k) # "[" THEN 0
    ELSE LET a == IF CharAt(t, k + 1) = "^" THEN k + 2 ELSE k + 1
             e == SkipWhile(t, a, Digits)
         IN  IF e > a /\ CharAt(t, e) = "]" THEN e + 1 ELSE 0

\* citation_pattern matched at position k: the position after the match
\* (0 when it does not match) and what its inner group (\d+(?:,\d+)*)
\* captured, <<>> standing for None
citation_pattern(t, k) ==
    LET s == SkipWhile(t, k, Whitespace)
    IN  IF ParenCitation(t, s) # 0 THEN [end |-> ParenCitation(t, s), group |-> <<>>]
        ELSE IF BracketCitation(t, s) # 0 THEN [end |-> BracketCitation(t, s), group |-> <<>>]
        ELSE IF MatchAt(t, s) # 0
             THEN [end |-> MatchAt(t, s),
                   group |-> SubSeq(t, SkipWhile(t, s + 2, Whitespace) + 3, MatchAt(t, s) - 3)]
             ELSE [end |-> 0, group |-> <<>>]

RECURSIVE re_split(_, _, _)
\* re.split(citation_pattern, paragraph_text): the text before each match,
\* then what each of the two groups of the pattern captured, and the rest
re_split(t, from, k) ==
    IF k > Len(t) THEN <<SubSeq(t, from, Len(t))>>
    ELSE IF citation_pattern(t, k).end # 0
         THEN <<SubSeq(t, from, k - 1), SubSeq(t, k, citation_pattern(t, k).end - 1),
                citation_pattern(t, k).group>>
                \o re_split(t, citation_pattern(t, k).end, citation_pattern(t, k).end)
         ELSE re_split(t, from, k + 1)

RECURSIVE PartAtoms(_, _, _, _, _, _)
\* the loop over the parts, from part k on
PartAtoms(paragraph_text, parts, k, current_offset, paragraph_start_offset, splits) ==
    IF k > Len(parts) THEN <<>>
    ELSE IF \A i \in 1..Len(parts[k]) : parts[k][i] \in Whitespace
         THEN PartAtoms(paragraph_text, parts, k + 1, current_offset + Len(parts[k]),
                        paragraph_start_offset, splits)
         ELSE LET part == parts[k]
                  found == Find(paragraph_text, part, current_offset)
                  part_start == IF found = -1 THEN current_offset ELSE found
              IN  (IF citation_pattern(part, 1).end = Len(part) + 1
                   THEN <<Atom(strip(part),
                               paragraph_start_offset + part_start
                                    + Find(part, strip(part), 0),
                               "citation")>>
                   ELSE SentenceAtoms(part, sent_tokenize(part, splits), 1, 0,
                                      paragraph_start_offset + part_start))
                  \o PartAtoms(paragraph_text, parts, k + 1, part_start + Len(part),
                               paragraph_start_offset, splits)

decompose_paragraph(paragraph_text, paragraph_start_offset, splits) ==
    PartAtoms(paragraph_text, re_split(paragraph_text, 1, 1), 1, 0,
              paragraph_start_offset, splits)

\* the atoms of the paragraph content_text[current_pos:para_end]
ParagraphAtoms(content_text, content_start_offset, current_pos, para_end, splits) ==
    IF strip(Slice(content_text, current_pos, para_end)) # <<>>
    THEN decompose_paragraph(strip(Slice(content_text, current_pos, para_end)),
                             content_start_offset + current_pos, splits)
    ELSE <<>>

RECURSIVE BlockAtoms(_, _, _, _, _, _)
\* the loop over the paragraph breaks and the last paragraph
BlockAtoms(content_text, content_start_offset, breaks, k, current_pos, splits) ==
    IF k > Len(breaks)
    THEN ParagraphAtoms(content_text, content_start_offset, current_pos,
                        Len(content_text), splits)
    ELSE ParagraphAtoms(content_text, content_start_offset, current_pos,
                        breaks[k].start, splits)
            \o BlockAtoms(content_text, content_start_offset, breaks, k + 1,
                          breaks[k].end, splits)

\* find_paragraphs_in_block(..., decompose_into_atoms=True): the atoms of
\* its paragraphs
find_paragraphs_in_block(content_text, content_start_offset, splits) ==
    IF content_text = <<>> THEN <<>>
    ELSE BlockAtoms(remove_extraneous_newlines(content_text), content_start_offset,
                    paragraph_breaks(remove_extraneous_newlines(content_text), 1),
                    1, 0, splits)

(***************************************************************************)
(* SpecParse: a document of one chapter, whose header is followed by any   *)
(* content of up to MaxBlock characters.                                   *)
(***************************************************************************)
MaxBlock == 5

\* the chapter header "# 1\n## T\n": the chapter's content starts after it
Header == <<"#", " ", "1", "\n", "#", "#", " ", "T", "\n">>
BlockChars == {"a", ".", " ", "\n"}

InitParse ==
    /\ pc = "parse"
    /\ \E block \in SeqsUpTo(BlockChars, MaxBlock) : parser_text = Header \o block
    /\ parsed_atoms = <<>>
    /\ LateUnused
    /\ CtxUnused
    /\ PoolUnused
    /\ TextUnused
    /\ PruneUnused
    /\ atom_id_map = <<>>
    /\ rels_out = <<>>
    /\ LLMUnused
    /\ PipeUnused
    /\ BucketUnused

\* content_text = self.text[content_start:end_offset];
\* find_paragraphs_in_block(content_text, content_start, decompose_into_atoms=True)
ParseBlock ==
    /\ pc = "parse"
    /\ \E splits \in BOOLEAN :
        parsed_atoms' = find_paragraphs_in_block(
                            Slice(parser_text, Len(Header), Len(parser_text)),
                            Len(Header), splits)
    /\ pc' = "parsed"
    /\ UNCHANGED <<parser_text, pruneVars, dbVars, llmVars, pipeVars, bucketVars,
                   ctxVars, poolVars, textVars, lateVars>>

NextParse == ParseBlock

SpecParse == InitParse /\ [][NextParse]_vars

\* C19: every atom has start_offset < end_offset, and the slice of
\* Parser.text between its offsets is the atom's text.
C19_OffsetsSliceText ==
    pc = "parsed" =>
        \A k \in 1..Len(parsed_atoms) :
            /\ parsed_atoms[k].start_offset < parsed_atoms[k].end_offset
            /\ parsed_atoms[k].end_offset <= Len(parser_text)
            /\ Slice(parser_text, parsed_atoms[k].start_offset, parsed_atoms[k].end_offset)
                    = parsed_atoms[k].text

(***************************************************************************)
(* SpecDecompose: decompose_paragraph on any stripped, non-empty paragraph *)
(* made of up to MaxPieces pieces: letters, spaces, colons, parentheses,   *)
(* full stops and the three kinds of citation marker.                      *)
(***************************************************************************)
MaxPieces == 5

AuthorYear == <<"(", "a", " ", "2", "0", "2", "0", ")">>
FootnoteMarker == <<"[", "^", "1", "]">>
CitationMarkers == {AuthorYear, FootnoteMarker, Marker}
Pieces == {<<"a">>, <<" ">>, <<":">>, <<"(">>, <<")">>, <<".">>} \cup CitationMarkers

InitDecompose ==
    /\ pc = "decompose"
    /\ \E ps \in SeqsUpTo(Pieces, MaxPieces) :
        /\ Concat(ps) # <<>>
        /\ strip(Concat(ps)) = Concat(ps)
        /\ dec_text = Concat(ps)
    /\ dec_atoms = <<>>
    /\ DecOthersUnused
    /\ CtxUnused
    /\ PoolUnused
    /\ TextUnused
    /\ ParseUnused
    /\ PruneUnused
    /\ atom_id_map = <<>>
    /\ rels_out = <<>>
    /\ LLMUnused
    /\ PipeUnused
    /\ BucketUnused

decRest == <<pruneVars, dbVars, llmVars, pipeVars, bucketVars, ctxVars, poolVars, textVars,
             parseVars, decOthers>>

Decompose ==
    /\ pc = "decompose"
    /\ \E splits \in BOOLEAN : dec_atoms' = decompose_paragraph(dec_text, 0, splits)
    /\ pc' = "decomposed"
    /\ UNCHANGED <<dec_text, decRest>>

NextDecompose == Decompose

SpecDecompose == InitDecompose /\ [][NextDecompose]_vars

\* C21: a paragraph that consists only of citation markers separated by
\* spaces gives atoms of type citation only, one per marker.
C21_CitationOnlyParagraph ==
    pc = "decomposed" =>
        \A ps \in SeqsUpTo(CitationMarkers \cup {<<" ">>}, MaxPieces) :
            Concat(ps) = dec_text =>
                /\ \A k \in 1..Len(dec_atoms) : dec_atoms[k].type = "citation"
                /\ Len(dec_atoms) = Cardinality({k \in 1..Len(ps) : ps[k] \in CitationMarkers})

\* the paragraph is one sentence without citations: it has no character of
\* a marker but letters, spaces and parentheses, and no full stop followed
\* by whitespace
OneSentence(t) ==
    /\ \A k \in 1..Len(t) : t[k] \in {"a", " ", ":", "(", ")", "."}
    /\ \A k \in 1..(Len(t) - 1) : ~(t[k] = "." /\ t[k + 1] \in Whitespace)

RECURSIVE DepthBefore(_, _)
\* the parenthesis depth in front of character i
DepthBefore(s, i) ==
    IF i = 1 THEN 0
    ELSE IF s[i - 1] = "(" THEN DepthBefore(s, i - 1) + 1
    ELSE IF s[i - 1] = ")" /\ DepthBefore(s, i - 1) > 0 THEN DepthBefore(s, i - 1) - 1
    ELSE DepthBefore(s, i - 1)

TopColons(s) == {i \in 1..Len(s) : s[i] = ":" /\ DepthBefore(s, i) = 0}

\* the sentence cut once, at its first colon of depth zero
Halves(s) ==
    IF TopColons(s) = {} THEN <<s>>
    ELSE LET i == CHOOSE x \in TopColons(s) : \A y \in TopColons(s) : x <= y
         IN  SelectSeq(<<strip(SubSeq(s, 1, i - 1)), strip(SubSeq(s, i + 1, Len(s)))>>,
                       LAMBDA h : h # <<>>)

\* C22: a sentence is split at most once, at its first colon of parenthesis
\* depth zero; its non-empty stripped halves are the sentence atoms, in
\* order; a sentence whose colons all lie inside parentheses is one atom.
C22_SplitAtFirstTopLevelColon ==
    (pc = "decomposed" /\ OneSentence(dec_text)) =>
        /\ Len(dec_atoms) = Len(Halves(dec_text))
        /\ \A k \in 1..Len(dec_atoms) :
            /\ dec_atoms[k].text = Halves(dec_text)[k]
            /\ dec_atoms[k].type = "sentence"

\* the sentence "(:):a": the colon inside the parentheses is passed over
C22_Witness ==
    /\ pc = "decomposed"
    /\ dec_text = <<"(", ":", ")", ":", "a">>
    /\ Len(dec_atoms) = 2
    /\ dec_atoms[1].text = <<"(", ":", ")">>

(***************************************************************************)
(* SpecCitations: link_citations_to_bibliography.  The bibliography        *)
(* section is None or gives a bib_map, of which the keys matter; the       *)
(* citations of the paragraphs are any list of up to MaxCitations          *)
(* citations, each with a key and the offset that tells it from the        *)
(* others.                                                                 *)
(***************************************************************************)
MaxCitations == 3

CitationKeys == {"a_2020", "b_2021", "c_2022"}

\* the citation without its key: citation.copy() after pop('key')
citation_copy(citation) == [start_offset |-> citation.start_offset]

\* the citations of bib_map[key] after the loop
LinkedTo(key, intext_citations) ==
    LET linked == SelectSeq(intext_citations, LAMBDA c : c.key = key)
    IN  [k \in 1..Len(linked) |-> citation_copy(linked[k])]

\* [present |-> FALSE] stands for a bibliography_section of None
link_citations_to_bibliography(bibliography_section, intext_citations) ==
    IF ~bibliography_section.present
    THEN [entries |-> <<>>, unlinked_citations |-> <<>>]
    ELSE [entries |-> [key \in bibliography_section.keys |-> LinkedTo(key, intext_citations)],
          unlinked_citations |->
            SelectSeq(intext_citations, LAMBDA c : c.key \notin bibliography_section.keys)]

InitCitations ==
    /\ pc = "link"
    /\ cit_section \in {[present |-> FALSE, keys |-> {}]}
                        \cup [present : {TRUE}, keys : SUBSET CitationKeys]
    /\ \E keys \in SeqsUpTo(CitationKeys, MaxCitations) :
        cit_found = [k \in 1..Len(keys) |-> [key |-> keys[k], start_offset |-> k]]
    /\ cit_result = <<>>
    /\ CitOthersUnused
    /\ CtxUnused
    /\ PoolUnused
    /\ TextUnused
    /\ ParseUnused
    /\ PruneUnused
    /\ atom_id_map = <<>>
    /\ rels_out = <<>>
    /\ LLMUnused
    /\ PipeUnused
    /\ BucketUnused

LinkCitations ==
    /\ pc = "link"
    /\ cit_result' = link_citations_to_bibliography(cit_section, cit_found)
    /\ pc' = "linked"
    /\ UNCHANGED <<cit_section, cit_found, pruneVars, dbVars, llmVars, pipeVars, bucketVars,
                   ctxVars, poolVars, textVars, parseVars, citOthers>>

NextCitations == LinkCitations

SpecCitations == InitCitations /\ [][NextCitations]_vars

\* the places of the result that hold the citation c: the bibliography
\* entries whose list holds it, and the unlinked list
PlacesOf(c, result) ==
    {p \in (DOMAIN result.entries) \X (1..MaxCitations) :
        /\ p[2] <= Len(result.entries[p[1]])
        /\ result.entries[p[1]][p[2]] = citation_copy(c)}

UnlinkedPlacesOf(c, result) ==
    {k \in 1..Len(result.unlinked_citations) : result.unlinked_citations[k] = c}

\* C23: every citation found in the paragraphs is in the result exactly
\* once: in the list of the one entry whose key is the citation's key, or
\* in unlinked_citations; also when the document has no bibliography.
C23_EveryCitationOnce ==
    pc = "linked" =>
        \A i \in 1..Len(cit_found) :
            /\ Cardinality(PlacesOf(cit_found[i], cit_result))
                + Cardinality(UnlinkedPlacesOf(cit_found[i], cit_result)) = 1
            /\ \A p \in PlacesOf(cit_found[i], cit_result) : p[1] = cit_found[i].key

(***************************************************************************)
(* SpecChapters: the post-filter of find_chapters.  The candidates are the *)
(* chapters built from the matches of main_chapter_pattern: each ends      *)
(* where the next one starts.  A candidate has the number that             *)
(* re.search(r'Chapter (\d+)', title) finds in its title, or NoNumber when *)
(* it finds none (a chapter numbered in Roman numerals).                   *)
(***************************************************************************)
MaxCandidates == 4
MaxNumber == 3
ChapterLength == 10

NoNumber == -1
ChapterTitles == {"A", "B"}

\* the candidate built from match i of n, numbered num and titled title
Candidate(i, num, title_) ==
    [title |-> title_, number |-> num,
     start_offset |-> ChapterLength * (i - 1), end_offset |-> ChapterLength * i]

\* filtered_chapters[-1]['end_offset'] = end, when filtered_chapters is not empty
Extended_Dropped(filtered, end) == filtered

Extended(filtered, end) ==
    IF filtered = <<>> THEN filtered
    ELSE [filtered EXCEPT ![Len(filtered)].end_offset = end]

RECURSIVE post_filter(_, _, _, _, _)
\* the loop over enumerate(chapters), from chapter i on
post_filter(chapters, i, filtered_chapters, seen_chapter_numbers, max_chapter_number) ==
    IF i > Len(chapters) THEN filtered_chapters
    ELSE LET chapter == chapters[i]
         IN  IF chapter.number = NoNumber
             THEN post_filter(chapters, i + 1, Append(filtered_chapters, chapter),
                              seen_chapter_numbers, max_chapter_number)
             ELSE IF chapter.number < max_chapter_number
             THEN post_filter(chapters, i + 1, Extended(filtered_chapters, chapter.end_offset),
                              seen_chapter_numbers, max_chapter_number)
             ELSE IF <<chapter.number, chapter.title>> \notin seen_chapter_numbers
             THEN post_filter(chapters, i + 1, Append(filtered_chapters, chapter),
                              seen_chapter_numbers \cup {<<chapter.number, chapter.title>>},
                              IF chapter.number > max_chapter_number
                              THEN chapter.number ELSE max_chapter_number)
             ELSE post_filter(chapters, i + 1, Extended(filtered_chapters, chapter.end_offset),
                              seen_chapter_numbers, max_chapter_number)

InitChapters ==
    /\ pc = "chapters"
    /\ \E hs \in SeqsUpTo(((0..MaxNumber) \cup {NoNumber}) \X ChapterTitles, MaxCandidates) :
        chap_cands = [i \in 1..Len(hs) |-> Candidate(i, hs[i][1], hs[i][2])]
    /\ chap_kept = <<>>
    /\ ChapOthersUnused
    /\ CtxUnused
    /\ PoolUnused
    /\ TextUnused
    /\ ParseUnused
    /\ PruneUnused
    /\ atom_id_map = <<>>
    /\ rels_out = <<>>
    /\ LLMUnused
    /\ PipeUnused
    /\ BucketUnused

PostFilter ==
    /\ pc = "chapters"
    /\ chap_kept' = post_filter(chap_cands, 1, <<>>, {}, 0)
    /\ pc' = "filtered"
    /\ UNCHANGED <<chap_cands, pruneVars, dbVars, llmVars, pipeVars, bucketVars,
                   ctxVars, poolVars, textVars, parseVars, chapOthers>>

NextChapters == PostFilter

SpecChapters == InitChapters /\ [][NextChapters]_vars

\* candidate i has a number below the highest number of the candidates
\* before it
Regresses(i) ==
    /\ chap_cands[i].number # NoNumber
    /\ \E j \in 1..(i - 1) : chap_cands[j].number > chap_cands[i].number

\* candidate i has the number and title of a candidate before it
Repeats(i) ==
    /\ chap_cands[i].number # NoNumber
    /\ \E j \in 1..(i - 1) :
        /\ chap_cands[j].number = chap_cands[i].number
        /\ chap_cands[j].title = chap_cands[i].title

Emitted(i) == \E k \in 1..Len(chap_kept) : chap_kept[k].start_offset = chap_cands[i].start_offset

\* C24: a candidate whose number regresses or whose (number, title) was
\* already kept is not emitted and extends the last kept chapter; the kept
\* chapters have non-decreasing numbers and tile the candidates' range.
C24_MergedNotDropped ==
    pc = "filtered" =>
        /\ \A i \in 1..Len(chap_cands) : Emitted(i) <=> ~(Regresses(i) \/ Repeats(i))
        /\ \A k \in 1..Len(chap_kept) : \A l \in (k + 1)..Len(chap_kept) :
            (chap_kept[k].number # NoNumber /\ chap_kept[l].number # NoNumber)
                => chap_kept[k].number <= chap_kept[l].number
        /\ \A k \in 1..(Len(chap_kept) - 1) :
            chap_kept[k].end_offset = chap_kept[k + 1].start_offset
        /\ chap_cands # <<>> =>
            /\ chap_kept # <<>>
            /\ chap_kept[1].start_offset = chap_cands[1].start_offset
            /\ chap_kept[Len(chap_kept)].end_offset = chap_cands[Len(chap_cands)].end_offset

\* a regressing candidate and a repeated one were merged into chapter 2
C24_Witness ==
    /\ pc = "filtered"
    /\ Len(chap_cands) = 4
    /\ Regresses(3)
    /\ Repeats(4)
    /\ Len(chap_kept) = 2
    /\ chap_kept[2].end_offset = chap_cands[4].end_offset

(***************************************************************************)
(* SpecSequence: the loops of SpecContext with the process_atom call in    *)
(* two steps, the call and its return; the sequences of a document run     *)
(* side by side as the pool schedules them.                                *)
(***************************************************************************)
InitSequence ==
    /\ pc = "context"
    /\ ctx_doc \in CtxDocuments
    /\ ctx_pos = [u \in CtxUnits(ctx_doc) |->
                    [paragraph |-> 1, atom_idx |-> 0, prev_paragraph_atoms |-> <<>>]]
    /\ ctx_calls = [u \in CtxUnits(ctx_doc) |-> <<>>]
    /\ ctx_run = [u \in CtxUnits(ctx_doc) |->
                    [in_call |-> FALSE, components |-> <<>>, log |-> <<>>]]
    /\ SeqOthersUnused
    /\ PoolUnused
    /\ TextUnused
    /\ ParseUnused
    /\ PruneUnused
    /\ atom_id_map = <<>>
    /\ rels_out = <<>>
    /\ LLMUnused
    /\ PipeUnused
    /\ BucketUnused

seqRest == <<pc, pruneVars, dbVars, llmVars, pipeVars, bucketVars, poolVars, textVars,
             parseVars, seqOthers>>

MayCall_WithoutWaiting(run) == TRUE

\* the loop calls process_atom and goes on when the call has returned
MayCall(run) == ~run.in_call

\* llm_client.process_atom(target_component, context) is called
StartCall(u) ==
    /\ CtxMayRun(u)
    /\ MayCall(ctx_run[u])
    /\ ctx_pos[u].atom_idx < CtxParagraphs(ctx_doc, u)[ctx_pos[u].paragraph].atoms
    /\ ctx_calls' = [ctx_calls EXCEPT ![u] = Append(@, ProcessAtomArguments(u))]
    /\ ctx_run' = [ctx_run EXCEPT ![u].in_call = TRUE,
                                  ![u].log = Append(@, <<"call", ProcessAtomArguments(u).target>>)]
    /\ UNCHANGED <<ctx_doc, ctx_pos, seqRest>>

\* the call returns: the annotated component is appended and the loop goes
\* to the next atom
CallReturns(u) ==
    /\ u \in CtxUnits(ctx_doc)
    /\ ctx_run[u].in_call
    /\ ctx_run' = [ctx_run EXCEPT
            ![u].in_call = FALSE,
            ![u].components = Append(@, ctx_calls[u][Len(ctx_calls[u])].target),
            ![u].log = Append(@, <<"return", ctx_calls[u][Len(ctx_calls[u])].target>>)]
    /\ ctx_pos' = [ctx_pos EXCEPT ![u].atom_idx = @ + 1]
    /\ UNCHANGED <<ctx_doc, ctx_calls, seqRest>>

NextSequence ==
    \/ \E u \in CtxUnitIndices : StartCall(u)
    \/ \E u \in CtxUnitIndices : CallReturns(u)
    \/ \E u \in CtxUnitIndices : EndParagraph(u)

SpecSequence == InitSequence /\ [][NextSequence]_vars

\* C25: in every sequence the calls and returns alternate, the k-th call
\* and the k-th return are those of the k-th atom of the sequence in
\* reading order (so a call starts only after the call before it has
\* returned), and the components appended are those atoms in that order.
C25_OneCallAtATimeInReadingOrder ==
    \A u \in CtxUnits(ctx_doc) :
        LET order == ReadingOrder(CtxParagraphs(ctx_doc, u), 1, 1)
            log == ctx_run[u].log
        IN  /\ Len(log) <= 2 * Len(order)
            /\ \A k \in 1..Len(log) :
                log[k] = <<IF k % 2 = 1 THEN "call" ELSE "return",
                           C12_IdOf(u, order[(k + 1) \div 2].p, order[(k + 1) \div 2].n)>>
            /\ ctx_run[u].components =
                    [k \in 1..(Len(log) \div 2) |-> C12_IdOf(u, order[k].p, order[k].n)]

\* the chapter level of the first chapter is calling for the first atom of
\* its second paragraph, after the two atoms of the first, while a
\* sequence of the second chapter has a call in flight too
C25_Witness ==
    /\ Len(ctx_doc[1].paragraphs) >= 2
    /\ ctx_doc[1].paragraphs[1].atoms = 2
    /\ Len(ctx_run[<<1, 0>>].components) = 2
    /\ ctx_pos[<<1, 0>>].paragraph = 2
    /\ ctx_run[<<1, 0>>].in_call
    /\ \E u \in CtxUnits(ctx_doc) : u[1] = 2 /\ ctx_run[u].in_call

\* C26: with a fair lock and a clock that runs, every thread that has
\* called consume() gets to the return with its token taken, however many
\* threads wait and although a waiter sleeps with the lock held.
C26_EveryCallerReturns ==
    \A t \in Threads : (tpc[t] = "acquire") ~> (tpc[t] = "return")

\* the bucket is empty: one thread sleeps with the lock held, past MaxTime,
\* while another one waits for the lock
C26_Witness ==
    /\ pc = "bucket"
    /\ now = MaxTime
    /\ \E t \in Threads :
        /\ tpc[t] = "sleeping"
        /\ lock = t
        /\ wake[t] > now
        /\ \E o \in Threads \ {t} : tpc[o] = "acquire"

\* build_graph has raised out of its try block: a chapter's future.result()
\* re-raised
Aborted == pc \in {"raised", "failed"} /\ next_future <= Len(Doc)

\* C27: when a chapter worker raises, the status becomes error, no worker
\* is left running, build_graph returns no graph, and annotated_components
\* holds no component of the aborted run.
C27_AbortDiscardsPartialResults ==
    Aborted =>
        /\ current_status = "error"
        /\ \A c \in Chapters : chapter_state[c] # "running"
        /\ \A u \in Units : units[u].counted
        /\ returned = <<>>
        /\ annotated_components = <<>>

(***************************************************************************)
(* SpecDewrap: _remove_extraneous_newlines on any block made of up to      *)
(* MaxBlockPieces pieces: a letter, a full stop, a space, a newline, a     *)
(* paragraph break and the heading "# a".                                  *)
(***************************************************************************)
MaxBlockPieces == 5

Heading == <<"#", " ", "a">>
BlockPieces == {<<"a">>, <<".">>, <<" ">>, <<"\n">>, <<"\n", "\n">>, Heading}

InitDewrap ==
    /\ pc = "dewrap"
    /\ \E ps \in SeqsUpTo(BlockPieces, MaxBlockPieces) : dw_text = Concat(ps)
    /\ dw_out = <<>>
    /\ DwOthersUnused
    /\ CtxUnused
    /\ PoolUnused
    /\ TextUnused
    /\ ParseUnused
    /\ PruneUnused
    /\ atom_id_map = <<>>
    /\ rels_out = <<>>
    /\ LLMUnused
    /\ PipeUnused
    /\ BucketUnused

\* content_text = self._remove_extraneous_newlines(content_text)
Dewrap ==
    /\ pc = "dewrap"
    /\ dw_out' = remove_extraneous_newlines(dw_text)
    /\ pc' = "dewrapped"
    /\ UNCHANGED <<dw_text, pruneVars, dbVars, llmVars, pipeVars, bucketVars,
                   ctxVars, poolVars, textVars, parseVars, dwOthers>>

NextDewrap == Dewrap

SpecDewrap == InitDewrap /\ [][NextDewrap]_vars

\* two adjacent lines that the rule joins: both have text, the first does
\* not end a sentence and neither is a heading
Joinable(first, second) ==
    /\ strip(first) # <<>>
    /\ strip(second) # <<>>
    /\ strip(first)[Len(strip(first))] \notin {".", "!", "?"}
    /\ ~IsHeading(strip(first))
    /\ ~IsHeading(strip(second))

\* the paragraph breaks of a text, as the positions where they start
BreaksOf(t) == {k \in 1..(Len(t) - 1) : t[k] = "\n" /\ t[k + 1] = "\n" /\ CharAt(t, k - 1) # "\n"}

\* C28: in the output no pair of adjacent lines is left that the rule
\* joins, every heading line of the block is still a line of its own, and
\* the block has as many paragraph breaks as before.
C28_NoJoinablePairLeft ==
    pc = "dewrapped" =>
        LET lines == SplitLines(dw_out)
            before == SplitLines(dw_text)
        IN  /\ \A i \in 1..(Len(lines) - 1) : ~Joinable(lines[i], lines[i + 1])
            /\ \A i \in 1..Len(before) :
                IsHeading(strip(before[i])) => \E k \in 1..Len(lines) : lines[k] = before[i]
            /\ Cardinality(BreaksOf(dw_out)) = Cardinality(BreaksOf(dw_text))

(***************************************************************************)
(* SpecApi: POST /documents/{document_id}/graph requests for one parsed    *)
(* document and the background tasks they add.  A request is handled in    *)
(* one step, from the test of app.state.graph_constructors to the answer.  *)
(* A background task runs in steps, one for each value build_graph gives   *)
(* current_status and one for the database transaction, and requests are   *)
(* handled between any two of them.                                        *)
(***************************************************************************)
MaxRequests == 3

InitApi ==
    /\ pc = "api"
    /\ api_ctors = <<>>
    /\ api_registered = 0
    /\ api_tasks = <<>>
    /\ api_responses = <<>>
    /\ ApiOthersUnused
    /\ CtxUnused
    /\ PoolUnused
    /\ TextUnused
    /\ ParseUnused
    /\ PruneUnused
    /\ atom_id_map = <<>>
    /\ rels_out = <<>>
    /\ LLMUnused
    /\ PipeUnused
    /\ BucketUnused

apiRest == <<pc, pruneVars, dbVars, llmVars, pipeVars, bucketVars,
             ctxVars, poolVars, textVars, parseVars, apiOthers>>

\* the background tasks that were added and have not ended
Unfinished == {k \in 1..Len(api_tasks) : api_tasks[k].state # "done"}

\* if document_id in app.state.graph_constructors: ... if
\* constructor.current_status in ["building", "filtering"]
InProgress(registered, ctors) ==
    /\ registered # 0
    /\ ctors[registered] \in {"building", "filtering"}

\* construct_graph, for a document that has parsed_content
Post ==
    /\ Len(api_responses) < MaxRequests
    /\ IF InProgress(api_registered, api_ctors)
       THEN /\ api_responses' = Append(api_responses,
                   [code |-> 409, unfinished |-> Cardinality(Unfinished),
                    replaced |-> FALSE, scheduled |-> FALSE])
            /\ UNCHANGED <<api_ctors, api_registered, api_tasks>>
       ELSE /\ api_ctors' = Append(api_ctors, "idle")
            /\ api_registered' = Len(api_ctors) + 1
            /\ api_tasks' = Append(api_tasks, [state |-> "scheduled", ctor |-> 0])
            /\ api_responses' = Append(api_responses,
                   [code |-> 202, unfinished |-> Cardinality(Unfinished),
                    replaced |-> api_registered # 0, scheduled |-> TRUE])
    /\ UNCHANGED apiRest

\* _run_graph_construction starts: it takes the constructor registered now
\* and build_graph sets current_status = "building"
TaskStarts(k) ==
    /\ api_tasks[k].state = "scheduled"
    /\ api_tasks' = [api_tasks EXCEPT ![k] = [state |-> "building", ctor |-> api_registered]]
    /\ api_ctors' = [api_ctors EXCEPT ![api_registered] = "building"]
    /\ UNCHANGED <<api_registered, api_responses, apiRest>>

\* the chapters are processed: current_status = "filtering"
ChaptersDone(k) ==
    /\ api_tasks[k].state = "building"
    /\ api_tasks' = [api_tasks EXCEPT ![k].state = "filtering"]
    /\ api_ctors' = [api_ctors EXCEPT ![api_tasks[k].ctor] = "filtering"]
    /\ UNCHANGED <<api_registered, api_responses, apiRest>>

\* a chapter raises: current_status = "error" in build_graph and again in
\* the except clause of _run_graph_construction
ChaptersRaise(k) ==
    /\ api_tasks[k].state = "building"
    /\ api_tasks' = [api_tasks EXCEPT ![k].state = "done"]
    /\ api_ctors' = [api_ctors EXCEPT ![api_tasks[k].ctor] = "error"]
    /\ UNCHANGED <<api_registered, api_responses, apiRest>>

\* build_graph returns with current_status = "complete"; with no atoms to
\* add the task ends with "complete_with_warnings", otherwise it opens the
\* database transaction
Filtered(k, has_atoms) ==
    /\ api_tasks[k].state = "filtering"
    /\ api_tasks' = [api_tasks EXCEPT ![k].state = IF has_atoms THEN "inserting" ELSE "done"]
    /\ api_ctors' = [api_ctors EXCEPT ![api_tasks[k].ctor] =
                        IF has_atoms THEN "complete" ELSE "complete_with_warnings"]
    /\ UNCHANGED <<api_registered, api_responses, apiRest>>

\* the transaction commits and the task ends
Inserted(k) ==
    /\ api_tasks[k].state = "inserting"
    /\ api_tasks' = [api_tasks EXCEPT ![k].state = "done"]
    /\ UNCHANGED <<api_ctors, api_registered, api_responses, apiRest>>

\* the transaction raises: current_status = "error"
InsertRaises(k) ==
    /\ api_tasks[k].state = "inserting"
    /\ api_tasks' = [api_tasks EXCEPT ![k].state = "done"]
    /\ api_ctors' = [api_ctors EXCEPT ![api_tasks[k].ctor] = "error"]
    /\ UNCHANGED <<api_registered, api_responses, apiRest>>

NextApi ==
    \/ Post
    \/ \E k \in 1..MaxRequests : k <= Len(api_tasks) /\ TaskStarts(k)
    \/ \E k \in 1..MaxRequests : k <= Len(api_tasks) /\ ChaptersDone(k)
    \/ \E k \in 1..MaxRequests : k <= Len(api_tasks) /\ ChaptersRaise(k)
    \/ \E k \in 1..MaxRequests, has_atoms \in BOOLEAN : k <= Len(api_tasks) /\ Filtered(k, has_atoms)
    \/ \E k \in 1..MaxRequests : k <= Len(api_tasks) /\ Inserted(k)
    \/ \E k \in 1..MaxRequests : k <= Len(api_tasks) /\ InsertRaises(k)

SpecApi == InitApi /\ [][NextApi]_vars

\* the background tasks that are between their start and their end
Constructing == {k \in 1..Len(api_tasks) : api_tasks[k].state \notin {"scheduled", "done"}}

\* C30: at most one background task of the document is between its start
\* and its end, and a request handled while a task that was added has not
\* ended is answered 409, leaves the registered constructor in place and
\* adds no task.
C30_AtMostOneConstruction ==
    /\ Cardinality(Constructing) <= 1
    /\ \A r \in 1..Len(api_responses) :
        api_responses[r].unfinished > 0 =>
            /\ api_responses[r].code = 409
            /\ ~api_responses[r].replaced
            /\ ~api_responses[r].scheduled

=============================================================================
